---- MODULE Spec2Model ----
(***************************************************************************)
(* The shared-memory message bus of the aircraft simulator (core/bus.c)    *)
(* and the processes that use it.  The bus is a ring of messages with a    *)
(* subscription table, guarded by one named semaphore.                     *)
(***************************************************************************)
EXTENDS Integers, Sequences, FiniteSets, TLC

(***************************************************************************)
(* Sizes.  The ring and the subscription table are modelled smaller than   *)
(* in bus.h (100 and 10) so that wrap-around and a full table are reached. *)
(***************************************************************************)
MAX_BUS_MESSAGES == 2

MAX_SUBSCRIBERS == 2

MESSAGE_TIMEOUT_S == 5

\* number of bus_publish calls in one run (each carries a fresh payload)
MaxPublish == 3

\* number of bus_publish calls in one run of SpecProc
MaxPublishProc == 2

\* number of bus_publish calls in one run of SpecRecv
MaxPublishTwo == 2

\* seconds the clock advances past MESSAGE_TIMEOUT_S
MaxTicks == 1

\* number of bus_publish calls by the components in one run of SpecFc
MaxPublishFc == 3


\* number of fork calls in one run of SpecLife
MaxForks == 4

\* number of bus_publish calls in one run of SpecAge
MaxPublishAge == 2

\* seconds the clock of SpecAge advances past MESSAGE_TIMEOUT_S: enough for a
\* message to become older than MESSAGE_TIMEOUT_S while it waits in the ring
MaxTicksAge == 6

\* fork calls of the supervisor in SpecSup: the four of the start and respawns
MaxSpawns == 5

\* runs of update_pid_controls in SpecPid
MaxPidTicks == 2

\* bus_publish calls of the autopilot in SpecAp, and seconds its clock advances
MaxPublishAp == 3

MaxTicksAp == 1

\* bus_publish calls in SpecOrd
MaxPublishOrd == 3

\* calls of flight_controller_spawn_component that fork (SpecSpawn)
MaxSpawnCalls == 3

\* ComponentId (common.h)
COMPONENT_FLIGHT_CONTROLLER == 0

COMPONENT_AUTOPILOT == 1

COMPONENT_GPS == 2

COMPONENT_INS == 3

COMPONENT_LANDING_RADIO == 4

COMPONENT_SAT_COM == 5

\* common.h: component ids must be less than this
MAX_COMPONENTS == 5

\* MessageType (messages.h)
MSG_POSITION_UPDATE == 0

MSG_STATE_REQUEST == 1

MSG_STATE_RESPONSE == 2

MSG_AUTOPILOT_COMMAND == 3

MSG_SYSTEM_STATUS == 4

\* ErrorCode (common.h)
SUCCESS == 0

ERROR_GENERAL == 1

ERROR_COMMUNICATION == 2

\* the processes of the model: the supervisor (root) and one forked child
Root == COMPONENT_FLIGHT_CONTROLLER

Procs == {COMPONENT_FLIGHT_CONTROLLER, COMPONENT_INS}

Receivers == {COMPONENT_AUTOPILOT, COMPONENT_INS}

Slots == 0 .. (MAX_BUS_MESSAGES - 1)

SubSlots == 0 .. (MAX_SUBSCRIBERS - 1)

(***************************************************************************)
(* Message: header {type, sender, receiver} and the payload bytes.  The    *)
(* payload is one number; every bus_publish call of a run carries a        *)
(* different one (1, 2, ...), so deliveries can be told apart.  0 is the   *)
(* payload of zeroed memory.                                               *)
(***************************************************************************)
ZeroMessage == [type |-> 0, sender |-> 0, receiver |-> 0, payload |-> 0]

ZeroSubscription == [subscriber |-> 0, msg_type |-> 0, active |-> FALSE]

\* bus_init: memset(bus, 0), ref_count = 1
bus_init ==
    [queue |-> [messages |-> [i \in Slots |-> ZeroMessage],
                timestamps |-> [i \in Slots |-> 0],
                read_idx |-> 0, write_idx |-> 0, count |-> 0],
     subscriptions |-> [i \in SubSlots |-> ZeroSubscription],
     ref_count |-> 1]

\* create_mutex: sem_open(..., O_CREAT, 0644, 1)
\* (mutant) the semaphore is created with the value 2
CreateMutexTwo == 1 + 1

create_mutex == 1

(***************************************************************************)
(* prune_old_messages                                                      *)
(***************************************************************************)
Expired(queue, idx, now) == now - queue.timestamps[idx] > MESSAGE_TIMEOUT_S

RECURSIVE PruneLoop(_, _, _, _, _)
\* the while loop: [count, read_idx, pruned] after it
PruneLoop(queue, now, count, read_idx, pruned) ==
    IF count > 0 /\ Expired(queue, read_idx, now)
    THEN PruneLoop(queue, now, count - 1, (read_idx + 1) % MAX_BUS_MESSAGES, pruned + 1)
    ELSE [count |-> count, read_idx |-> read_idx, pruned |-> pruned]

\* (mutant) the loop body runs once at most
prune_old_messagesOnce(queue, now) ==
    IF queue.count > 0 /\ Expired(queue, queue.read_idx, now)
    THEN [queue EXCEPT !.count = @ - 1,
                       !.read_idx = (@ + 1) % MAX_BUS_MESSAGES]
    ELSE queue

prune_old_messages(queue, now) ==
    IF queue.count = 0 THEN queue
    ELSE LET r == PruneLoop(queue, now, queue.count, queue.read_idx, 0)
         IN [queue EXCEPT !.count = r.count,
                          !.read_idx = IF r.pruned > 0 THEN r.read_idx ELSE @]

(***************************************************************************)
(* bus_subscribe                                                           *)
(***************************************************************************)
\* (mutant) the highest-indexed inactive slot is taken
FreeSlotLast(subscriptions, i) ==
    IF \E j \in SubSlots : j >= i /\ ~subscriptions[j].active
    THEN CHOOSE j \in SubSlots :
            /\ j >= i /\ ~subscriptions[j].active
            /\ \A k \in SubSlots : (k >= i /\ ~subscriptions[k].active) => k <= j
    ELSE MAX_SUBSCRIBERS

RECURSIVE FreeSlot(_, _)
\* the for loop: the first i with !subscriptions[i].active, MAX_SUBSCRIBERS if none
FreeSlot(subscriptions, i) ==
    IF i >= MAX_SUBSCRIBERS THEN MAX_SUBSCRIBERS
    ELSE IF ~subscriptions[i].active THEN i
    ELSE FreeSlot(subscriptions, i + 1)

\* (mutant) subscribing a pair that is already subscribed deactivates its entry
bus_subscribeToggle(bus, subscriber, msg_type) ==
    LET same == {j \in SubSlots : bus.subscriptions[j] =
                    [subscriber |-> subscriber, msg_type |-> msg_type, active |-> TRUE]}
        i == FreeSlot(bus.subscriptions, 0)
    IN IF same # {}
       THEN [bus |-> [bus EXCEPT !.subscriptions =
                         [j \in SubSlots |-> IF j \in same THEN ZeroSubscription ELSE @[j]]],
             ret |-> SUCCESS]
       ELSE IF i < MAX_SUBSCRIBERS
       THEN [bus |-> [bus EXCEPT !.subscriptions[i] =
                         [subscriber |-> subscriber, msg_type |-> msg_type, active |-> TRUE]],
             ret |-> SUCCESS]
       ELSE [bus |-> bus, ret |-> ERROR_GENERAL]

bus_subscribe(bus, subscriber, msg_type) ==
    LET i == FreeSlot(bus.subscriptions, 0)
    IN IF i < MAX_SUBSCRIBERS
       THEN [bus |-> [bus EXCEPT !.subscriptions[i] =
                         [subscriber |-> subscriber, msg_type |-> msg_type, active |-> TRUE]],
             ret |-> SUCCESS]
       ELSE [bus |-> bus, ret |-> ERROR_GENERAL]

(***************************************************************************)
(* bus_publish                                                             *)
(***************************************************************************)
\* (mutant) the full test is off by one
QueueFullOffByOne(queue) == queue.count > MAX_BUS_MESSAGES

QueueFull(queue) == queue.count >= MAX_BUS_MESSAGES

\* (mutant) the message is copied into the slot before the full test
bus_publishOverwrite(bus, message) ==
    IF QueueFull(bus.queue)
    THEN [bus |-> [bus EXCEPT !.queue.messages[bus.queue.write_idx] = message],
          ret |-> ERROR_COMMUNICATION]
    ELSE [bus |-> [bus EXCEPT !.queue.messages[bus.queue.write_idx] = message,
                              !.queue.write_idx = (@ + 1) % MAX_BUS_MESSAGES,
                              !.queue.count = @ + 1],
          ret |-> SUCCESS]

bus_publish(bus, message) ==
    IF QueueFull(bus.queue)
    THEN [bus |-> bus, ret |-> ERROR_COMMUNICATION]
    ELSE [bus |-> [bus EXCEPT !.queue.messages[bus.queue.write_idx] = message,
                              !.queue.write_idx = (@ + 1) % MAX_BUS_MESSAGES,
                              !.queue.count = @ + 1],
          ret |-> SUCCESS]

(***************************************************************************)
(* bus_read_message                                                        *)
(***************************************************************************)
\* (mutant) the receiver of the header is matched too
SubscriptionMatchesReceiver(sub, subscriber, msg) ==
    sub.active /\ sub.subscriber = subscriber /\ sub.msg_type = msg.type
               /\ msg.receiver = subscriber

\* the condition of the inner for loop, for one subscription entry
SubscriptionMatches(sub, subscriber, msg) ==
    sub.active /\ sub.subscriber = subscriber /\ sub.msg_type = msg.type

RECURSIVE CheckSubscriptions(_, _, _, _)
\* the inner for loop: TRUE iff some entry i .. MAX_SUBSCRIBERS-1 matches
CheckSubscriptions(subscriptions, subscriber, msg, i) ==
    IF i >= MAX_SUBSCRIBERS THEN FALSE
    ELSE IF SubscriptionMatches(subscriptions[i], subscriber, msg) THEN TRUE
    ELSE CheckSubscriptions(subscriptions, subscriber, msg, i + 1)

RECURSIVE ScanLoop(_, _, _, _)
\* the while loop: [found, current] after it
ScanLoop(bus, subscriber, current, checked) ==
    IF checked < bus.queue.count
    THEN IF CheckSubscriptions(bus.subscriptions, subscriber,
                               bus.queue.messages[current], 0)
         THEN [found |-> TRUE, current |-> current]
         ELSE ScanLoop(bus, subscriber, (current + 1) % MAX_BUS_MESSAGES, checked + 1)
    ELSE [found |-> FALSE, current |-> current]

\* (mutant) the head is popped, wherever the match was
RemoveMessageHead(queue, current) ==
    [queue EXCEPT !.read_idx = (@ + 1) % MAX_BUS_MESSAGES,
                  !.count = @ - 1]

\* what a successful match does to the queue
RemoveMessage(queue, current) ==
    [queue EXCEPT !.read_idx = (current + 1) % MAX_BUS_MESSAGES,
                  !.count = @ - 1]

\* the queue as the scan sees it: pruned first when more than half full
\* (mutant) the queue is pruned on every read, whatever its count
QueueAfterPruneAlways(queue, now) ==
    prune_old_messages(queue, now)

QueueAfterPrune(queue, now) ==
    IF queue.count > MAX_BUS_MESSAGES \div 2
    THEN prune_old_messages(queue, now)
    ELSE queue

bus_read_message(bus, subscriber, now) ==
    LET b1 == [bus EXCEPT !.queue = QueueAfterPrune(bus.queue, now)]
    IN IF b1.queue.count = 0
       THEN [bus |-> b1, found |-> FALSE, message |-> ZeroMessage]
       ELSE LET s == ScanLoop(b1, subscriber, b1.queue.read_idx, 0)
            IN IF s.found
               THEN [bus |-> [b1 EXCEPT !.queue = RemoveMessage(b1.queue, s.current)],
                     found |-> TRUE,
                     message |-> b1.queue.messages[s.current]]
               ELSE [bus |-> b1, found |-> FALSE, message |-> ZeroMessage]

(***************************************************************************)
(* bus_attach and bus_cleanup (bus_detach calls bus_cleanup): the          *)
(* reference count, changed under the mutex.                               *)
(***************************************************************************)
bus_attach(bus) == [bus EXCEPT !.ref_count = @ + 1]

bus_cleanup(bus) == [bus EXCEPT !.ref_count = @ - 1]

(***************************************************************************)
(* The processes.  pc[p] is where process p stands:                        *)
(*   "detached"  no mapping of the segment (not forked yet, or detached)   *)
(*   "idle"      attached, outside every bus operation                     *)
(*   "subscribe", "publish", "read", "attach", "cleanup"                   *)
(*               past the sem_wait of that operation, body not yet run     *)
(*   "post"      body run, before the sem_post                             *)
(*   "post_detach", "post_last"                                            *)
(*               bus_cleanup after ref_count--, before its sem_post        *)
(* sem is the value of the named semaphore, segment says whether the       *)
(* shared segment and the semaphore's name still exist, now is time(NULL). *)
(* busB and lastB are the bus and the last result of a second run, used    *)
(* where two runs are compared.  The other variables record what happened: *)
(*   last        the operation whose body ran last, and its result         *)
(*   published   messages bus_publish accepted                             *)
(*   delivered   messages bus_read_message returned                        *)
(*   redelivered messages bus_read_message returned more than once         *)
(*   pruned      prune_old_messages has removed a message                  *)
(*   nextPayload number of bus_publish calls so far                        *)
(***************************************************************************)
VARIABLES bus, sem, segment, pc, now, nextPayload,
          last, published, delivered, redelivered, pruned,
          busB, lastB

\* enqueued[i] is the time of the bus_publish call that last wrote slot i of
\* the ring (0: never written); it records what happened and steers nothing
\* observed is the count the last bus_read_message call found on entry.
VARIABLES enqueued, observed

age == <<enqueued, observed>>

\* The processes over their lifetime (SpecLife):
\*   life           where each process stands between fork and its end
\*   component_pids the supervisor's fc->component_pids[c] > 0
\*   running        the flag of main.c that its signal handler clears
\*   attaches       bus_init and bus_attach calls that have run
\*   detaches       bus_cleanup calls (bus_detach included) that have run
\*   forks          fork calls so far
VARIABLES life, component_pids, running, attaches, detaches, forks

lifetime == <<life, component_pids, running, attaches, detaches, forks>>

\* the children of SpecLife: one that subscribes in its init, one that does not
Children == {COMPONENT_AUTOPILOT, COMPONENT_GPS}

\* The flight controller (SpecFc):
\*   state      fc->state, the ExtendedFlightState
\*   fcpc       where flight_controller_process_messages stands: "read" before
\*              a bus_read_message, "respond_position" before the
\*              bus_publish of handle_position_update, "respond_request"
\*              before that of the STATE_REQUEST case, "wait" in the
\*              waitpid loop
\*   response   the response the handler has built and not yet published
\*              (zeroed when there is none)
\*   since      a POSITION_UPDATE of the component has been handled since its
\*              connected flag last changed
VARIABLES state, fcpc, response, since

fc == <<state, fcpc, response, since>>

\* the navigation components
Sources == {COMPONENT_GPS, COMPONENT_INS, COMPONENT_LANDING_RADIO}

\* flight_state_init: memset 0 (time stamps, vertical speed and the aircraft
\* parameters, which no message handler reads, are left out)
flight_state_init ==
    [basic |-> [position |-> 0, heading |-> 0, speed |-> 0],
     nav_data |-> [gps_valid |-> FALSE, ins_valid |-> FALSE, radio_valid |-> FALSE,
                   gps_position |-> 0, ins_position |-> 0, radio_position |-> 0],
     autopilot |-> [enabled |-> FALSE, target_altitude |-> 0,
                    target_heading |-> 0, target_speed |-> 0],
     system_status |-> [gps_connected |-> FALSE, ins_operational |-> FALSE,
                        landing_radio_connected |-> FALSE,
                        sat_com_connected |-> FALSE]]

\* the variables the specifications of the bus as a whole leave alone
\* The supervisor and its children under the mutex (SpecSup):
\*   child       where the process of each component stands: "unborn",
\*               "forked" (before bus_attach), "attach" and "critical"
\*               (between the sem_wait and the sem_post of bus_attach and of
\*               any other bus operation), "running" (attached, outside
\*               every bus operation), "zombie" (terminated, not waited
\*               for), "gone" (waited for)
\*   child_pid   the pid fork gave the process of each component (0: none)
\*   fc_pids     fc->component_pids
\*   fc_running  fc->running
\*   suppc       where the root process stands
\*   cursor      the i of the loop of flight_controller_cleanup
\*   started     the components flight_controller_start has spawned, in order
\*   sig         the signals flight_controller_cleanup has sent to the process
\*               of each component, in order
\*   worked      flight_controller_process_messages has read the bus or
\*               waited for a child
\*   spawns      fork calls so far
VARIABLES child, child_pid, fc_pids, fc_running, suppc, cursor, started, sig,
          worked, spawns

sup == <<child, child_pid, fc_pids, fc_running, suppc, cursor, started, sig,
         worked, spawns>>

\* a start that spawns the GPS receiver before the autopilot
componentsGpsFirst == <<COMPONENT_GPS, COMPONENT_AUTOPILOT, COMPONENT_INS,
                        COMPONENT_LANDING_RADIO>>

\* components[] of flight_controller_start
components == <<COMPONENT_AUTOPILOT, COMPONENT_GPS, COMPONENT_INS,
                COMPONENT_LANDING_RADIO>>

Spawned == {components[i] : i \in 1..Len(components)}

\* the supervisor before flight_controller_start, no child forked
InitSup ==
    /\ child = [c \in Spawned |-> "unborn"]
    /\ child_pid = [c \in Spawned |-> 0]
    /\ fc_pids = [i \in 0..(MAX_COMPONENTS - 1) |-> 0]
    /\ fc_running = FALSE
    /\ suppc = "start"
    /\ cursor = 0
    /\ started = <<>>
    /\ sig = [c \in Spawned |-> <<>>]
    /\ worked = FALSE
    /\ spawns = 0

\* The autopilot (SpecPid, SpecAp):
\*   config             ap->config
\*   current_state      ap->current_state: heading, speed, altitude
\*   state_valid        ap->state_valid
\*   last_state_request ap->last_state_request
\*   pid_state          ap->pid_state: integral and last error of each axis
\*   appc               where autopilot_process stands: "request" at its
\*                      start, "drain" in its read loop, "control" after it
\*   log                what each run of update_pid_controls had as current
\*                      state and gave as outputs and command, in order
VARIABLES config, current_state, state_valid, last_state_request, pid_state,
          appc, log

autop == <<config, current_state, state_valid, last_state_request, pid_state,
           appc, log>>

\* autopilot.c: #define UPDATE_INTERVAL_MS, STATE_REQUEST_INTERVAL_S
UPDATE_INTERVAL_MS == 100

STATE_REQUEST_INTERVAL_S == 1

\* the defaults of autopilot_load_config; the gains are in hundredths
DEFAULT_HEADING_PID == <<100, 10, 20>>

DEFAULT_ALTITUDE_PID == <<50, 5, 10>>

DEFAULT_SPEED_PID == <<30, 2, 5>>

DEFAULT_MAX_CLIMB_RATE == 2000

DEFAULT_MAX_DESCENT_RATE == 1500

DEFAULT_MAX_SPEED == 350

DEFAULT_MIN_SPEED == 120

DEFAULT_MAX_HEADING_RATE == 3

\* autopilot_load_config without a configuration file: the default waypoint
\* is the position the bearing is taken from, atan2(0, 0) is 0
DefaultConfig ==
    [target_altitude |-> 10000, target_speed |-> 250, target_heading |-> 0,
     max_climb_rate |-> DEFAULT_MAX_CLIMB_RATE,
     max_descent_rate |-> DEFAULT_MAX_DESCENT_RATE,
     max_speed |-> DEFAULT_MAX_SPEED,
     min_speed |-> DEFAULT_MIN_SPEED,
     max_heading_rate |-> DEFAULT_MAX_HEADING_RATE,
     heading_pid |-> DEFAULT_HEADING_PID,
     altitude_pid |-> DEFAULT_ALTITUDE_PID,
     speed_pid |-> DEFAULT_SPEED_PID]

\* memset(&ap->pid_state, 0, ...) of autopilot_init
ZeroPidState ==
    [heading_integral |-> 0, heading_last_error |-> 0,
     altitude_integral |-> 0, altitude_last_error |-> 0,
     speed_integral |-> 0, speed_last_error |-> 0]

\* memset(&ap->current_state, 0, ...) of autopilot_init
ZeroFlightState == [heading |-> 0, speed |-> 0, altitude |-> 0]

\* autopilot_init
InitAutopilot ==
    /\ config = DefaultConfig
    /\ current_state = ZeroFlightState
    /\ state_valid = FALSE
    /\ last_state_request = 0
    /\ pid_state = ZeroPidState
    /\ appc = "request"
    /\ log = <<>>

\* What each reader has been given (SpecOrd):
\*   got      the payloads of the messages bus_read_message has returned
\*            to each process
\*   skipped  the payloads of the slots that matching reads have passed on
\*            their way to a match behind the head
VARIABLES got, skipped

ord == <<got, skipped>>

InitOrd ==
    /\ got = [p \in Procs |-> {}]
    /\ skipped = {}

\* How the root process ends (SpecLife):
\*   fin.frees     free(fc) calls of the root
\*   fin.cleanups  bus_cleanup calls the root has entered
\*   fin.failed    flight_controller_start has returned an error
\*   fin.status    "running", or the signal that ended the process
VARIABLES fin

InitFin == fin = [frees |-> 0, cleanups |-> 0, failed |-> FALSE,
                  status |-> "running"]

ext == <<age, lifetime, fc, sup, autop, ord, fin>>

InitExt ==
    /\ enqueued = [i \in Slots |-> 0]
    /\ observed = 0
    /\ life = [p \in Children \cup {Root} |-> IF p = Root THEN "loop" ELSE "unborn"]
    /\ component_pids = [c \in Children |-> FALSE]
    /\ running = TRUE
    /\ attaches = 1
    /\ detaches = 0
    /\ forks = 0
    /\ state = flight_state_init
    /\ fcpc = "read"
    /\ response = ZeroMessage
    /\ since = [c \in Sources |-> FALSE]
    /\ InitSup
    /\ InitAutopilot
    /\ InitOrd
    /\ InitFin

vars == <<bus, sem, segment, pc, now, nextPayload,
          last, published, delivered, redelivered, pruned, busB, lastB, ext>>

hist == <<last, published, delivered, redelivered, pruned>>

runB == <<busB, lastB>>

NoOp == [op |-> "none", proc |-> 0, arg |-> 0, ret |-> SUCCESS,
         found |-> FALSE, message |-> ZeroMessage]

(***************************************************************************)
(* The bodies of the bus operations as process p runs them between         *)
(* sem_wait and sem_post, with what they add to the record of the run.     *)
(***************************************************************************)
\* what each process subscribes to: the flight controller to POSITION_UPDATE
\* (flight_controller_init), the INS to STATE_RESPONSE and POSITION_UPDATE (ins_init)
SubscribedTypes(p) ==
    IF p = COMPONENT_FLIGHT_CONTROLLER
    THEN {MSG_POSITION_UPDATE}
    ELSE {MSG_STATE_RESPONSE, MSG_POSITION_UPDATE}

DoSubscribe(p) ==
    /\ \E t \in SubscribedTypes(p) :
          LET r == bus_subscribe(bus, p, t)
          IN /\ bus' = r.bus
             /\ last' = [NoOp EXCEPT !.op = "subscribe", !.proc = p, !.arg = t,
                                     !.ret = r.ret]
    /\ UNCHANGED <<now, nextPayload, published, delivered, redelivered, pruned>>

\* the receiver each component writes into the header of what it publishes:
\* a STATE_RESPONSE goes to the autopilot, everything else to the flight controller
ReceiverOf(t) ==
    IF t = MSG_STATE_RESPONSE THEN COMPONENT_AUTOPILOT ELSE COMPONENT_FLIGHT_CONTROLLER

\* what each process publishes: the flight controller STATE_RESPONSE
\* (handle_position_update), the INS its POSITION_UPDATE
PublishedTypes(p) ==
    IF p = COMPONENT_FLIGHT_CONTROLLER THEN {MSG_STATE_RESPONSE} ELSE {MSG_POSITION_UPDATE}

DoPublish(p) ==
    /\ \E t \in PublishedTypes(p) :
          LET m == [type |-> t, sender |-> p, receiver |-> ReceiverOf(t),
                    payload |-> nextPayload + 1]
              r == bus_publish(bus, m)
          IN /\ bus' = r.bus
             /\ last' = [NoOp EXCEPT !.op = "publish", !.proc = p, !.ret = r.ret,
                                     !.message = m]
             /\ published' = IF r.ret = SUCCESS THEN published \cup {m} ELSE published
    /\ nextPayload' = nextPayload + 1
    /\ UNCHANGED <<now, delivered, redelivered, pruned>>

DoReadMessage(p) ==
    /\ LET r == bus_read_message(bus, p, now)
       IN /\ bus' = r.bus
          /\ last' = [NoOp EXCEPT !.op = "read", !.proc = p, !.found = r.found,
                                  !.message = r.message]
          /\ delivered' = IF r.found THEN delivered \cup {r.message} ELSE delivered
          /\ redelivered' = IF r.found /\ r.message \in delivered
                            THEN redelivered \cup {r.message} ELSE redelivered
          /\ pruned' = (pruned \/ QueueAfterPrune(bus.queue, now).count < bus.queue.count)
    /\ UNCHANGED <<now, nextPayload, published>>

\* a second passes
ClockTick ==
    /\ now < MESSAGE_TIMEOUT_S + MaxTicks
    /\ now' = now + 1
    /\ UNCHANGED <<bus, nextPayload, hist>>

(***************************************************************************)
(* Spec: the bus as its users see it.  Every operation holds the mutex     *)
(* from its first access to its last, so each is one step.  Both processes *)
(* are attached.                                                           *)
(***************************************************************************)
Init ==
    /\ bus = bus_attach(bus_init)
    /\ sem = create_mutex
    /\ segment = TRUE
    /\ pc = [p \in Procs |-> "idle"]
    /\ now = MESSAGE_TIMEOUT_S
    /\ nextPayload = 0
    /\ last = NoOp
    /\ published = {}
    /\ delivered = {}
    /\ redelivered = {}
    /\ pruned = FALSE
    /\ busB = bus_init
    /\ lastB = NoOp
    /\ InitExt

Subscribe(p) == DoSubscribe(p) /\ UNCHANGED <<sem, segment, pc, runB, ext>>

Publish(p) == nextPayload < MaxPublish /\ DoPublish(p) /\ UNCHANGED <<sem, segment, pc, runB, ext>>

ReadMessage(p) == DoReadMessage(p) /\ UNCHANGED <<sem, segment, pc, runB, ext>>

Tick == ClockTick /\ UNCHANGED <<sem, segment, pc, runB, ext>>

Next ==
    \/ \E p \in Procs : Subscribe(p)
    \/ \E p \in Procs : Publish(p)
    \/ \E p \in Procs : ReadMessage(p)
    \/ Tick

Spec == Init /\ [][Next]_vars

(***************************************************************************)
(* SpecProc: the processes step by step.  The root has run bus_init; the   *)
(* child is forked by the root, attaches, uses the bus and detaches; the   *)
(* root detaches last, after its children are gone.                        *)
(***************************************************************************)
InCS == {"subscribe", "publish", "read", "attach", "cleanup",
         "post", "post_detach", "post_last"}

InitProc ==
    /\ bus = bus_init
    /\ sem = create_mutex
    /\ segment = TRUE
    /\ pc = [p \in Procs |-> IF p = Root THEN "idle" ELSE "detached"]
    /\ now = MESSAGE_TIMEOUT_S
    /\ nextPayload = 0
    /\ last = NoOp
    /\ published = {}
    /\ delivered = {}
    /\ redelivered = {}
    /\ pruned = FALSE
    /\ busB = bus_init
    /\ lastB = NoOp
    /\ InitExt

\* which operation process p may call where it stands
MayCall(p, op) ==
    CASE op = "attach"  -> pc[p] = "detached" /\ p # Root /\ pc[Root] # "detached"
      [] op = "cleanup" -> /\ pc[p] = "idle"
                           /\ (p = Root => \A q \in Procs \ {Root} : pc[q] = "detached")
      [] op = "publish" -> pc[p] = "idle" /\ nextPayload < MaxPublishProc
      [] OTHER          -> pc[p] = "idle"

\* sem_wait(bus->mutex) at the head of an operation: blocks while the value is 0
sem_wait(p) ==
    /\ segment
    /\ sem > 0
    /\ sem' = sem - 1
    /\ \E op \in {"subscribe", "publish", "read", "attach", "cleanup"} :
          /\ MayCall(p, op)
          /\ pc' = [pc EXCEPT ![p] = op]
    /\ UNCHANGED <<bus, segment, now, nextPayload, hist, runB, ext>>

SubscribeBody(p) ==
    /\ pc[p] = "subscribe"
    /\ DoSubscribe(p)
    /\ pc' = [pc EXCEPT ![p] = "post"]
    /\ UNCHANGED <<sem, segment, runB, ext>>

PublishBody(p) ==
    /\ pc[p] = "publish"
    /\ DoPublish(p)
    /\ pc' = [pc EXCEPT ![p] = "post"]
    /\ UNCHANGED <<sem, segment, runB, ext>>

ReadMessageBody(p) ==
    /\ pc[p] = "read"
    /\ DoReadMessage(p)
    /\ pc' = [pc EXCEPT ![p] = "post"]
    /\ UNCHANGED <<sem, segment, runB, ext>>

AttachBody(p) ==
    /\ pc[p] = "attach"
    /\ bus' = bus_attach(bus)
    /\ pc' = [pc EXCEPT ![p] = "post"]
    /\ UNCHANGED <<sem, segment, now, nextPayload, hist, runB, ext>>

CleanupBody(p) ==
    /\ pc[p] = "cleanup"
    /\ bus' = bus_cleanup(bus)
    /\ pc' = [pc EXCEPT ![p] = IF bus'.ref_count = 0 THEN "post_last" ELSE "post_detach"]
    /\ UNCHANGED <<sem, segment, now, nextPayload, hist, runB, ext>>

\* sem_post(bus->mutex) at the end of an operation; bus_cleanup then unmaps the
\* segment, and with the last reference unlinks the semaphore and removes it
sem_post(p) ==
    /\ pc[p] \in {"post", "post_detach", "post_last"}
    /\ sem' = sem + 1
    /\ pc' = [pc EXCEPT ![p] = IF pc[p] = "post" THEN "idle" ELSE "detached"]
    /\ segment' = IF pc[p] = "post_last" THEN FALSE ELSE segment
    /\ UNCHANGED <<bus, now, nextPayload, hist, runB, ext>>

TickProc == ClockTick /\ UNCHANGED <<sem, segment, pc, runB, ext>>

NextProc ==
    \/ \E p \in Procs : sem_wait(p)
    \/ \E p \in Procs : SubscribeBody(p)
    \/ \E p \in Procs : PublishBody(p)
    \/ \E p \in Procs : ReadMessageBody(p)
    \/ \E p \in Procs : AttachBody(p)
    \/ \E p \in Procs : CleanupBody(p)
    \/ \E p \in Procs : sem_post(p)
    \/ TickProc

SpecProc == InitProc /\ [][NextProc]_vars

PublishStep == nextPayload' = nextPayload + 1

SubscribeStep == last'.op = "subscribe" /\ now' = now /\ nextPayload' = nextPayload

ReadStep == last'.op = "read" /\ now' = now /\ nextPayload' = nextPayload

\* the slot index k places after the head of queue q
RingIndex(q, k) == (q.read_idx + k) % MAX_BUS_MESSAGES

\* subscriber s has some active subscription to the type of message m
Subscribed(b, s, m) ==
    \E i \in SubSlots : /\ b.subscriptions[i].active
                        /\ b.subscriptions[i].subscriber = s
                        /\ b.subscriptions[i].msg_type = m.type

Min(S) == CHOOSE x \in S : \A y \in S : x <= y

(***************************************************************************)
(* C2.  Every message bus_read_message returns was published before, and   *)
(* no message is returned by more than one bus_read_message call.          *)
(***************************************************************************)
C2_SingleConsumerDelivery ==
    /\ delivered \subseteq published
    /\ redelivered = {}

(***************************************************************************)
(* C3.  In every reachable bus state 0 <= count <= MAX_BUS_MESSAGES and    *)
(* read_idx and write_idx lie in [0, MAX_BUS_MESSAGES).                    *)
(***************************************************************************)
C3_QueueBounds ==
    /\ bus.queue.count \in 0 .. MAX_BUS_MESSAGES
    /\ bus.queue.read_idx \in Slots
    /\ bus.queue.write_idx \in Slots

\* pruning has emptied a queue whose head had gone round the ring: both
\* indices stand on the last slot
C3_Witness ==
    /\ pruned
    /\ last.op = "read"
    /\ bus.queue.count = 0
    /\ bus.queue.read_idx = MAX_BUS_MESSAGES - 1
    /\ bus.queue.write_idx = MAX_BUS_MESSAGES - 1

(***************************************************************************)
(* C4.  While no pruning has occurred, (write_idx - read_idx) mod          *)
(* MAX_BUS_MESSAGES equals count, whatever position the message matched by *)
(* a read had.  (count is taken mod MAX_BUS_MESSAGES too, so that a full   *)
(* queue, where both indices coincide, is not counted against the claim.)  *)
(***************************************************************************)
C4_RingConsistency ==
    ~pruned =>
        (bus.queue.write_idx - bus.queue.read_idx) % MAX_BUS_MESSAGES
            = bus.queue.count % MAX_BUS_MESSAGES

(***************************************************************************)
(* C5.  bus_publish called when count = MAX_BUS_MESSAGES returns the       *)
(* queue-full error and leaves the queued messages, read_idx, write_idx    *)
(* and count (the whole bus) unchanged.                                    *)
(***************************************************************************)
C5_PublishFullStep ==
    (PublishStep /\ bus.queue.count = MAX_BUS_MESSAGES) =>
        /\ last'.ret = ERROR_COMMUNICATION
        /\ bus' = bus
        /\ published' = published

C5_PublishFull == [][C5_PublishFullStep]_vars

\* a publish has been refused on a full queue
C5_Witness ==
    /\ last.op = "publish" /\ last.ret = ERROR_COMMUNICATION
    /\ bus.queue.count = MAX_BUS_MESSAGES

(***************************************************************************)
(* C6.  If bus_publish(m) succeeds and a reader with an active             *)
(* subscription to m's type calls bus_read_message next, while no other    *)
(* slot of the queue (the count slots from read_idx) matches that reader's *)
(* subscriptions, the call returns true with a message identical to m.     *)
(* Only reads that prune nothing are considered.                           *)
(***************************************************************************)
C6_RoundTripStep ==
    LET m == last.message
        p == last'.proc
        q == bus.queue
    IN (/\ ReadStep
        /\ last.op = "publish" /\ last.ret = SUCCESS
        /\ Subscribed(bus, p, m)
        /\ QueueAfterPrune(q, now) = q
        /\ \A k \in 0 .. (q.count - 1) :
              q.messages[RingIndex(q, k)] # m => ~Subscribed(bus, p, q.messages[RingIndex(q, k)]))
       => (last'.found /\ last'.message = m)

C6_RoundTrip == [][C6_RoundTripStep]_vars

(***************************************************************************)
(* C7.  bus_read_message(subscriber) returns the first message, scanning   *)
(* count slots in ring order from read_idx, whose type equals the msg_type *)
(* of an active subscription of the subscriber; on a match read_idx        *)
(* becomes (matched index + 1) mod MAX_BUS_MESSAGES and count decreases by *)
(* exactly 1; it returns false exactly when no scanned slot matches.       *)
(* count and read_idx are those the scan starts from, after the pruning    *)
(* the call does first.                                                    *)
(***************************************************************************)
C7_FirstMatchStep ==
    LET p == last'.proc
        q == QueueAfterPrune(bus.queue, now)
        K == {k \in 0 .. (q.count - 1) : Subscribed(bus, p, q.messages[RingIndex(q, k)])}
    IN ReadStep =>
         IF K = {}
         THEN ~last'.found /\ bus'.queue = q
         ELSE /\ last'.found
              /\ last'.message = q.messages[RingIndex(q, Min(K))]
              /\ bus'.queue.read_idx = (RingIndex(q, Min(K)) + 1) % MAX_BUS_MESSAGES
              /\ bus'.queue.count = q.count - 1
              /\ bus'.queue.write_idx = q.write_idx
              /\ bus'.queue.messages = q.messages

C7_FirstMatch == [][C7_FirstMatchStep]_vars

\* a read returned a message that was not at the head of the queue: the head
\* index has gone round to the write index while a message is still counted
C7_Witness ==
    /\ ~pruned
    /\ last.op = "read" /\ last.found
    /\ bus.queue.count = MAX_BUS_MESSAGES - 1
    /\ bus.queue.read_idx = bus.queue.write_idx

(***************************************************************************)
(* C9.  bus_subscribe stores (subscriber, msg_type, active) in the         *)
(* lowest-indexed inactive slot and returns success; with all              *)
(* MAX_SUBSCRIBERS slots active it returns an error and leaves the table   *)
(* unchanged; in neither case does it touch the message queue.             *)
(***************************************************************************)
C9_SubscribeStep ==
    LET free == {i \in SubSlots : ~bus.subscriptions[i].active}
    IN SubscribeStep =>
         /\ bus'.queue = bus.queue
         /\ IF free = {}
            THEN last'.ret = ERROR_GENERAL /\ bus'.subscriptions = bus.subscriptions
            ELSE /\ last'.ret = SUCCESS
                 /\ bus'.subscriptions =
                      [bus.subscriptions EXCEPT ![Min(free)] =
                          [subscriber |-> last'.proc, msg_type |-> last'.arg,
                           active |-> TRUE]]

C9_Subscribe == [][C9_SubscribeStep]_vars

\* a subscribe has been refused on a full table while messages were queued
C9_Witness ==
    /\ last.op = "subscribe" /\ last.ret = ERROR_GENERAL
    /\ \A i \in SubSlots : bus.subscriptions[i].active
    /\ bus.queue.count > 0

(***************************************************************************)
(* Two runs side by side.  Run A works on bus and reports in last, run B   *)
(* on busB and lastB; both make the same calls at the same times.          *)
(***************************************************************************)
InitTwo ==
    /\ bus = bus_attach(bus_init)
    /\ busB = bus_attach(bus_init)
    /\ last = NoOp
    /\ lastB = NoOp
    /\ InitExt
    /\ sem = create_mutex
    /\ segment = TRUE
    /\ pc = [p \in Procs |-> "idle"]
    /\ now = MESSAGE_TIMEOUT_S
    /\ nextPayload = 0
    /\ published = {}
    /\ delivered = {}
    /\ redelivered = {}
    /\ pruned = FALSE

fixedTwo == <<sem, segment, pc, published, delivered, redelivered, pruned, ext>>

SubscribeResult(p, t, r) ==
    [NoOp EXCEPT !.op = "subscribe", !.proc = p, !.arg = t, !.ret = r.ret]

PublishResult(p, m, r) ==
    [NoOp EXCEPT !.op = "publish", !.proc = p, !.ret = r.ret, !.message = m]

ReadResult(p, r) ==
    [NoOp EXCEPT !.op = "read", !.proc = p, !.found = r.found, !.message = r.message]

SubscribeBoth(p) ==
    /\ \E t \in SubscribedTypes(p) :
          LET rA == bus_subscribe(bus, p, t)
              rB == bus_subscribe(busB, p, t)
          IN /\ bus' = rA.bus /\ last' = SubscribeResult(p, t, rA)
             /\ busB' = rB.bus /\ lastB' = SubscribeResult(p, t, rB)
    /\ UNCHANGED <<now, nextPayload, fixedTwo>>

ReadBoth(p) ==
    /\ LET rA == bus_read_message(bus, p, now)
           rB == bus_read_message(busB, p, now)
       IN /\ bus' = rA.bus /\ last' = ReadResult(p, rA)
          /\ busB' = rB.bus /\ lastB' = ReadResult(p, rB)
    /\ UNCHANGED <<now, nextPayload, fixedTwo>>

TickBoth ==
    /\ now < MESSAGE_TIMEOUT_S + MaxTicks
    /\ now' = now + 1
    /\ UNCHANGED <<bus, busB, last, lastB, nextPayload, fixedTwo>>

(***************************************************************************)
(* SpecRecv: the messages run B publishes differ from those of run A in    *)
(* header.receiver only.                                                   *)
(***************************************************************************)
PublishBothRecv(p) ==
    /\ nextPayload < MaxPublishTwo
    /\ \E t \in PublishedTypes(p), rcv \in Receivers :
          LET mA == [type |-> t, sender |-> p, receiver |-> ReceiverOf(t),
                     payload |-> nextPayload + 1]
              mB == [mA EXCEPT !.receiver = rcv]
              rA == bus_publish(bus, mA)
              rB == bus_publish(busB, mB)
          IN /\ bus' = rA.bus /\ last' = PublishResult(p, mA, rA)
             /\ busB' = rB.bus /\ lastB' = PublishResult(p, mB, rB)
    /\ nextPayload' = nextPayload + 1
    /\ UNCHANGED <<now, fixedTwo>>

NextRecv ==
    \/ \E p \in Procs : SubscribeBoth(p)
    \/ \E p \in Procs : PublishBothRecv(p)
    \/ \E p \in Procs : ReadBoth(p)
    \/ TickBoth

SpecRecv == InitTwo /\ [][NextRecv]_vars

\* a record without its receiver field
SansReceiver(r) == [r EXCEPT !.message.receiver = 0]

(***************************************************************************)
(* C8.  Delivery does not depend on header.receiver: in two runs making    *)
(* the same subscribe, publish and read_message calls, whose published     *)
(* messages differ in the receiver only, every call returns the same       *)
(* result and every bus_read_message the same found flag and the same      *)
(* message up to the receiver field.                                       *)
(***************************************************************************)
C8_ReceiverIndependence == SansReceiver(lastB) = SansReceiver(last)

\* a STATE_RESPONSE addressed to the autopilot was returned to the INS, in
\* the run where it was addressed to the INS as well
C8_Witness ==
    /\ last.op = "read" /\ last.proc = COMPONENT_INS /\ last.found
    /\ last.message.type = MSG_STATE_RESPONSE
    /\ last.message.receiver = COMPONENT_AUTOPILOT
    /\ lastB.message.receiver = COMPONENT_INS

(***************************************************************************)
(* SpecDup: run B subscribes one (subscriber, msg_type) pair a second      *)
(* time, run A does not; only publish and read_message calls follow.       *)
(***************************************************************************)
PublishBoth(p) ==
    /\ nextPayload < MaxPublish
    /\ \E t \in PublishedTypes(p) :
          LET m == [type |-> t, sender |-> p, receiver |-> ReceiverOf(t),
                    payload |-> nextPayload + 1]
              rA == bus_publish(bus, m)
              rB == bus_publish(busB, m)
          IN /\ bus' = rA.bus /\ last' = PublishResult(p, m, rA)
             /\ busB' = rB.bus /\ lastB' = PublishResult(p, m, rB)
    /\ nextPayload' = nextPayload + 1
    /\ UNCHANGED <<now, fixedTwo>>

SubscribeBefore(p) == busB.subscriptions = bus.subscriptions /\ SubscribeBoth(p)

\* run B repeats a bus_subscribe call that both runs have made
SubscribeAgain(p) ==
    /\ busB.subscriptions = bus.subscriptions
    /\ \E i \in SubSlots :
          /\ bus.subscriptions[i].active
          /\ bus.subscriptions[i].subscriber = p
          /\ busB' = bus_subscribe(busB, p, bus.subscriptions[i].msg_type).bus
    /\ UNCHANGED <<bus, last, lastB, now, nextPayload, fixedTwo>>

NextDup ==
    \/ \E p \in Procs : SubscribeBefore(p)
    \/ \E p \in Procs : SubscribeAgain(p)
    \/ \E p \in Procs : PublishBoth(p)
    \/ \E p \in Procs : ReadBoth(p)
    \/ TickBoth

SpecDup == InitTwo /\ [][NextDup]_vars

(***************************************************************************)
(* C10.  Subscribing the same (subscriber, msg_type) pair a second time    *)
(* does not change delivery: every later publish and read_message returns  *)
(* what it returns with the single subscription, and the queue is left the *)
(* same, so each message is returned as often as with the single           *)
(* subscription.                                                           *)
(***************************************************************************)
C10_ResubscribeSameDelivery ==
    /\ lastB = last
    /\ busB.queue = bus.queue

\* with the pair subscribed twice in run B, a read returned a message
C10_Witness ==
    /\ busB.subscriptions # bus.subscriptions
    /\ last.op = "read" /\ last.found
    /\ \E i, j \in SubSlots :
          /\ i # j
          /\ busB.subscriptions[i] = busB.subscriptions[j]
          /\ busB.subscriptions[i].active
          /\ busB.subscriptions[i].subscriber = last.proc
          /\ busB.subscriptions[i].msg_type = last.message.type

(***************************************************************************)
(* SpecAge: the bus with a clock that runs long enough for messages to     *)
(* expire, and a record of when each slot was written.                     *)
(***************************************************************************)
notAge == <<sem, segment, pc, runB, published, delivered, redelivered, lifetime, fc, sup, autop, ord, fin>>

\* the flight controller and its child have subscribed (flight_controller_init,
\* ins_init) before the first message is published
InitAge ==
    /\ bus = bus_subscribe(bus_subscribe(bus_attach(bus_init),
                                         COMPONENT_FLIGHT_CONTROLLER,
                                         MSG_POSITION_UPDATE).bus,
                           COMPONENT_INS, MSG_STATE_RESPONSE).bus
    /\ sem = create_mutex
    /\ segment = TRUE
    /\ pc = [p \in Procs |-> "idle"]
    /\ now = MESSAGE_TIMEOUT_S
    /\ nextPayload = 0
    /\ last = NoOp
    /\ published = {}
    /\ delivered = {}
    /\ redelivered = {}
    /\ pruned = FALSE
    /\ busB = bus_init
    /\ lastB = NoOp
    /\ InitExt

PublishAge(p) ==
    /\ nextPayload < MaxPublishAge
    /\ \E t \in PublishedTypes(p) :
          LET m == [type |-> t, sender |-> p, receiver |-> ReceiverOf(t),
                    payload |-> nextPayload + 1]
              r == bus_publish(bus, m)
          IN /\ bus' = r.bus
             /\ last' = PublishResult(p, m, r)
             /\ enqueued' = IF r.ret = SUCCESS
                            THEN [enqueued EXCEPT ![bus.queue.write_idx] = now]
                            ELSE enqueued
    /\ nextPayload' = nextPayload + 1
    /\ UNCHANGED <<now, pruned, observed, notAge>>

ReadMessageAge(p) ==
    /\ LET r == bus_read_message(bus, p, now)
       IN /\ bus' = r.bus
          /\ last' = ReadResult(p, r)
          /\ pruned' = (pruned \/ QueueAfterPrune(bus.queue, now).count < bus.queue.count)
    /\ observed' = bus.queue.count
    /\ UNCHANGED <<now, nextPayload, enqueued, notAge>>

TickAge ==
    /\ now < MESSAGE_TIMEOUT_S + MaxTicksAge
    /\ now' = now + 1
    /\ UNCHANGED <<bus, nextPayload, last, pruned, age, notAge>>

NextAge ==
    \/ \E p \in Procs : PublishAge(p)
    \/ \E p \in Procs : ReadMessageAge(p)
    \/ TickAge

SpecAge == InitAge /\ [][NextAge]_vars

\* the slots a bus_read_message step pruned: those it dropped from the head
\* of the ring before its scan (a match found by the scan takes one more)
PrunedSlots ==
    LET n == bus.queue.count - bus'.queue.count - (IF last'.found THEN 1 ELSE 0)
    IN {RingIndex(bus.queue, k) : k \in 0 .. (n - 1)}

\* seconds since slot i was written
Age(i, t) == t - enqueued[i]

(***************************************************************************)
(* C11.  Pruning removes only expired messages: a message that bus_publish *)
(* enqueued at most MESSAGE_TIMEOUT_S seconds ago is never removed by the  *)
(* pruning of a bus_read_message call.                                     *)
(***************************************************************************)
C11_OnlyExpiredPrunedStep ==
    ReadStep => \A i \in PrunedSlots : Age(i, now) > MESSAGE_TIMEOUT_S

C11_OnlyExpiredPruned == [][C11_OnlyExpiredPrunedStep]_vars

(***************************************************************************)
(* C12.  After a bus_read_message call that found count above              *)
(* MAX_BUS_MESSAGES/2 on entry, no message enqueued more than              *)
(* MESSAGE_TIMEOUT_S seconds ago is left in the queue.                     *)
(***************************************************************************)
C12_NoOldMessageStep ==
    (ReadStep /\ bus.queue.count > MAX_BUS_MESSAGES \div 2) =>
        \A k \in 0 .. (bus'.queue.count - 1) :
            Age(RingIndex(bus'.queue, k), now) <= MESSAGE_TIMEOUT_S

C12_NoOldMessage == [][C12_NoOldMessageStep]_vars

\* a read that found the queue more than half full, one of its messages
\* written more than MESSAGE_TIMEOUT_S seconds before, has pruned it empty
C12_Witness ==
    /\ last.op = "read"
    /\ observed > MAX_BUS_MESSAGES \div 2
    /\ pruned
    /\ bus.queue.count = 0
    /\ \E i \in Slots : enqueued[i] > 0 /\ Age(i, now) > MESSAGE_TIMEOUT_S

(***************************************************************************)
(* SpecLife: the supervisor and its children from fork to exit.  Every bus *)
(* operation is one step.  life[p] is                                      *)
(*   for the supervisor (main.c, flight_controller.c)                      *)
(*     "start"     in flight_controller_start, spawning the components     *)
(*     "loop"      in the main loop                                        *)
(*     "shutdown"  main has returned, cleanup() runs                       *)
(*                 flight_controller_cleanup and terminates the children   *)
(*     "detached"  flight_controller_cleanup has called bus_cleanup        *)
(*     "failed"    flight_controller_start has failed and cleaned up       *)
(*     "dead"      the process is gone                                     *)
(*   for a child (the pid == 0 branch of flight_controller_spawn_component)*)
(*     "unborn"    not forked yet                                          *)
(*     "forked"    before bus_attach                                       *)
(*     "init"      attached, in the init function of its component         *)
(*     "running"   in the endless loop of its component                    *)
(*     "returned"  the init function failed and the component's main has   *)
(*                 returned, before bus_detach                             *)
(*     "exit"      exit() called: cleanup(), registered with atexit before *)
(*                 the fork, is about to run flight_controller_cleanup on  *)
(*                 the child's copy of the controller                      *)
(*     "exit2"     cleanup() is about to call bus_cleanup(bus)             *)
(*     "zombie"    terminated, not yet reaped by the supervisor            *)
(*     "killed"    terminated and reaped by flight_controller_cleanup      *)
(* segment = FALSE says the semaphore's name is unlinked and the segment   *)
(* removed (IPC_RMID: it lingers, invisible, while still mapped).          *)
(***************************************************************************)
notLifeFin == <<sem, pc, now, nextPayload, hist, runB, age, fc, sup, autop, ord>>

notLife == <<notLifeFin, fin>>

Alive == {"forked", "init", "running", "returned", "exit", "exit2"}

InitLife ==
    /\ bus = bus_subscribe(bus_init, COMPONENT_FLIGHT_CONTROLLER,
                           MSG_POSITION_UPDATE).bus
    /\ sem = create_mutex
    /\ segment = TRUE
    /\ pc = [p \in Procs |-> "idle"]
    /\ now = MESSAGE_TIMEOUT_S
    /\ nextPayload = 0
    /\ last = NoOp
    /\ published = {}
    /\ delivered = {}
    /\ redelivered = {}
    /\ pruned = FALSE
    /\ busB = bus_init
    /\ lastB = NoOp
    /\ enqueued = [i \in Slots |-> 0]
    /\ observed = 0
    /\ life = [p \in Children \cup {Root} |-> IF p = Root THEN "start" ELSE "unborn"]
    /\ component_pids = [c \in Children |-> FALSE]
    /\ running = TRUE
    /\ attaches = 1
    /\ detaches = 0
    /\ forks = 0
    /\ state = flight_state_init
    /\ fcpc = "read"
    /\ response = ZeroMessage
    /\ since = [c \in Sources |-> FALSE]
    /\ InitSup
    /\ InitAutopilot
    /\ InitOrd
    /\ InitFin

\* fork in flight_controller_spawn_component: the parent records the pid
Fork(c) ==
    /\ forks < MaxForks
    /\ forks' = forks + 1
    /\ life' = [life EXCEPT ![c] = "forked"]
    /\ component_pids' = [component_pids EXCEPT ![c] = TRUE]

\* flight_controller_start spawns the components in the order of its array
StartSpawn(c) ==
    /\ life[Root] = "start"
    /\ life[c] = "unborn"
    /\ \A d \in Children : d < c => life[d] # "unborn"
    /\ Fork(c)
    /\ UNCHANGED <<bus, segment, running, attaches, detaches, notLife>>

\* flight_controller_start returns, main enters its loop
StartDone ==
    /\ life[Root] = "start"
    /\ \A c \in Children : life[c] # "unborn"
    /\ life' = [life EXCEPT ![Root] = "loop"]
    /\ UNCHANGED <<bus, segment, component_pids, running, attaches, detaches,
                   forks, notLife>>

\* handle_signal (SIGINT or SIGTERM delivered to the supervisor)
Signal ==
    /\ life[Root] \in {"start", "loop"}
    /\ running
    /\ running' = FALSE
    /\ UNCHANGED <<bus, segment, life, component_pids, attaches, detaches,
                   forks, notLife>>

\* the waitpid loop of flight_controller_process_messages: a terminated child
\* is reaped, its pid cleared and the component spawned again
ReapAndRespawn(c) ==
    /\ life[Root] = "loop"
    /\ running
    /\ life[c] = "zombie"
    /\ component_pids[c]
    /\ Fork(c)
    /\ UNCHANGED <<bus, segment, running, attaches, detaches, notLife>>

\* while (running) ends, main returns, exit runs cleanup()
LeaveLoop ==
    /\ life[Root] = "loop"
    /\ ~running
    /\ life' = [life EXCEPT ![Root] = "shutdown"]
    /\ UNCHANGED <<bus, segment, component_pids, running, attaches, detaches,
                   forks, notLife>>

\* flight_controller_cleanup, one round of its loop: SIGTERM (the child has
\* inherited handle_signal, which only clears a flag), then SIGKILL and
\* waitpid; a child that had terminated already is reaped
Terminate(c) ==
    /\ life[Root] = "shutdown"
    /\ component_pids[c]
    /\ \A d \in Children : d < c => ~component_pids[d]
    /\ life' = [life EXCEPT ![c] = "killed"]
    /\ component_pids' = [component_pids EXCEPT ![c] = FALSE]
    /\ UNCHANGED <<bus, segment, running, attaches, detaches, forks, notLife>>

\* bus_cleanup as process p runs it: ref_count--, and with the last
\* reference sem_unlink and shmctl(IPC_RMID)
Cleanup(p, next) ==
    /\ bus' = bus_cleanup(bus)
    /\ detaches' = detaches + 1
    /\ segment' = IF bus'.ref_count = 0 THEN FALSE ELSE segment
    /\ life' = [life EXCEPT ![p] = next]

\* the end of flight_controller_cleanup in the supervisor: bus_cleanup(fc->bus)
RootCleanup ==
    /\ life[Root] = "shutdown"
    /\ \A c \in Children : ~component_pids[c]
    /\ Cleanup(Root, "detached")
    /\ fin' = [fin EXCEPT !.cleanups = @ + 1, !.frees = @ + 1]
    /\ UNCHANGED <<component_pids, running, attaches, forks, notLifeFin>>

\* cleanup() goes on to bus_cleanup(bus) with the pointer it has just
\* unmapped: the read of bus->ref_count faults and the process ends there
SecondCleanup(p) ==
    /\ \/ p = Root /\ life[p] = "detached"
       \/ p \in Children /\ life[p] = "exit2"
    /\ life' = [life EXCEPT ![p] = IF p = Root THEN "dead" ELSE "zombie"]
    /\ fin' = IF p = Root
              THEN [fin EXCEPT !.cleanups = @ + 1, !.status = "SIGSEGV"]
              ELSE fin
    /\ UNCHANGED <<bus, segment, component_pids, running, attaches, detaches,
                   forks, notLifeFin>>

\* the child calls bus_attach(fc->shm_id)
ChildAttach(c) ==
    /\ life[c] = "forked"
    /\ bus' = bus_attach(bus)
    /\ attaches' = attaches + 1
    /\ life' = [life EXCEPT ![c] = "init"]
    /\ UNCHANGED <<segment, component_pids, running, detaches, forks, notLife>>

\* shmat of a segment already removed may fail: "Child failed to attach",
\* exit(EXIT_FAILURE)
ChildAttachFails(c) ==
    /\ life[c] = "forked"
    /\ ~segment
    /\ life' = [life EXCEPT ![c] = "exit"]
    /\ UNCHANGED <<bus, segment, component_pids, running, attaches, detaches,
                   forks, notLife>>

\* the init function of the component: the autopilot subscribes to
\* STATE_RESPONSE and fails if bus_subscribe does; the GPS receiver opens a
\* socket, which may fail.  After a failure the component's main returns.
ChildInit(c) ==
    /\ life[c] = "init"
    /\ IF c = COMPONENT_AUTOPILOT
       THEN LET r == bus_subscribe(bus, c, MSG_STATE_RESPONSE)
            IN /\ bus' = r.bus
               /\ life' = [life EXCEPT ![c] = IF r.ret = SUCCESS THEN "running"
                                              ELSE "returned"]
       ELSE /\ bus' = bus
            /\ \E ok \in BOOLEAN :
                  life' = [life EXCEPT ![c] = IF ok THEN "running" ELSE "returned"]
    /\ UNCHANGED <<segment, component_pids, running, attaches, detaches, forks,
                   notLife>>

\* bus_detach(child_bus); exit(EXIT_SUCCESS)
ChildDetach(c) ==
    /\ life[c] = "returned"
    /\ Cleanup(c, "exit")
    /\ UNCHANGED <<component_pids, running, attaches, forks, notLife>>

\* cleanup() in the child: flight_controller_cleanup(controller) signals the
\* siblings recorded before the fork (SIGTERM, which they handle; waitpid
\* fails for them, so no SIGKILL follows) and calls bus_cleanup(fc->bus) on the
\* mapping inherited from the supervisor
ChildAtexit(c) ==
    /\ life[c] = "exit"
    /\ Cleanup(c, "exit2")
    /\ UNCHANGED <<component_pids, running, attaches, forks, notLife>>

\* a child dies where it stands (a fault, a SIGKILL from outside)
Crash(c) ==
    /\ life[c] \in Alive
    /\ life' = [life EXCEPT ![c] = "zombie"]
    /\ UNCHANGED <<bus, segment, component_pids, running, attaches, detaches,
                   forks, notLife>>

\* fork fails for the next component of flight_controller_start:
\* flight_controller_cleanup(fc) ends the children spawned so far, calls
\* bus_cleanup(fc->bus) and frees fc; start returns the error to main
StartSpawnFails(c) ==
    /\ life[Root] = "start"
    /\ life[c] = "unborn"
    /\ \A d \in Children : d < c => life[d] # "unborn"
    /\ life' = [p \in Children \cup {Root} |->
                    IF p = Root THEN "failed"
                    ELSE IF component_pids[p] THEN "killed" ELSE life[p]]
    /\ component_pids' = [d \in Children |-> FALSE]
    /\ bus' = bus_cleanup(bus)
    /\ detaches' = detaches + 1
    /\ segment' = IF bus'.ref_count = 0 THEN FALSE ELSE segment
    /\ fin' = [fin EXCEPT !.failed = TRUE, !.cleanups = @ + 1, !.frees = @ + 1]
    /\ UNCHANGED <<running, attaches, forks, notLifeFin>>

\* main returns 1 and exit runs cleanup(): controller still points to the
\* freed block, and flight_controller_cleanup(controller) reads and frees it
\* again.  What that does is undefined: free aborts on the double free, or
\* a read of the freed block faults, or the second free passes and cleanup()
\* goes on to bus_cleanup(bus) on the address unmapped before, which faults.
FailedExit(outcome) ==
    /\ life[Root] = "failed"
    /\ life' = [life EXCEPT ![Root] = "dead"]
    /\ fin' = CASE outcome = "abort" ->
                     [fin EXCEPT !.frees = @ + 1, !.status = "SIGABRT"]
                [] outcome = "fault" ->
                     [fin EXCEPT !.status = "SIGSEGV"]
                [] OTHER ->
                     [fin EXCEPT !.frees = @ + 1, !.cleanups = @ + 1,
                                 !.status = "SIGSEGV"]
    /\ UNCHANGED <<bus, segment, component_pids, running, attaches, detaches,
                   forks, notLifeFin>>

NextLife ==
    \/ \E c \in Children : StartSpawnFails(c)
    \/ \E outcome \in {"abort", "fault", "second free"} : FailedExit(outcome)
    \/ \E c \in Children : StartSpawn(c)
    \/ StartDone
    \/ Signal
    \/ \E c \in Children : ReapAndRespawn(c)
    \/ LeaveLoop
    \/ \E c \in Children : Terminate(c)
    \/ RootCleanup
    \/ \E p \in Children \cup {Root} : SecondCleanup(p)
    \/ \E c \in Children : ChildAttach(c)
    \/ \E c \in Children : ChildAttachFails(c)
    \/ \E c \in Children : ChildInit(c)
    \/ \E c \in Children : ChildDetach(c)
    \/ \E c \in Children : ChildAtexit(c)
    \/ \E c \in Children : Crash(c)

SpecLife == InitLife /\ [][NextLife]_vars

\* the supervisor still has the bus mapped through fc->bus
RootAttached == life[Root] \in {"start", "loop", "shutdown"}

(***************************************************************************)
(* C13.  In every reachable state ref_count is the number of bus_init and  *)
(* bus_attach calls minus the number of bus_detach and bus_cleanup calls,  *)
(* and the segment with its named semaphore exists iff ref_count > 0.      *)
(***************************************************************************)
C13_ReferenceCount ==
    /\ bus.ref_count = attaches - detaches
    /\ segment <=> bus.ref_count > 0

(***************************************************************************)
(* C14.  Once the supervisor, shutting down after a signal with all its    *)
(* children terminated, has detached, ref_count is 0, the semaphore is     *)
(* unlinked and the segment destroyed.                                     *)
(***************************************************************************)
C14_RootDetachesLast ==
    (~fin.failed /\ life[Root] \in {"detached", "dead"}) =>
        (bus.ref_count = 0 /\ ~segment)

(***************************************************************************)
(* C15.  While the supervisor is attached, whatever its children do,       *)
(* ref_count is above 0, the semaphore is not unlinked and the segment is  *)
(* not destroyed.                                                          *)
(***************************************************************************)
C15_SupervisorLastDetacher ==
    RootAttached => (bus.ref_count > 0 /\ segment)

(***************************************************************************)
(* flight_state.c: the fused flight state.  A Position is one number.      *)
(***************************************************************************)
\* (mutant) the response is built without the memcpy of the basic state
StateResponseNoState(receiver, st) ==
    [type |-> MSG_STATE_RESPONSE, sender |-> COMPONENT_FLIGHT_CONTROLLER,
     receiver |-> receiver, payload |-> 0]

\* the STATE_RESPONSE both handlers build: memcpy of fc->state.basic
StateResponse(receiver, st) ==
    [type |-> MSG_STATE_RESPONSE, sender |-> COMPONENT_FLIGHT_CONTROLLER,
     receiver |-> receiver, payload |-> st.basic.position]

\* (mutant) the priority the header comment of flight_state.h names: INS first
flight_state_get_best_positionInsFirst(st) ==
    IF st.nav_data.ins_valid THEN st.nav_data.ins_position
    ELSE IF st.nav_data.gps_valid THEN st.nav_data.gps_position
    ELSE IF st.nav_data.radio_valid THEN st.nav_data.radio_position
    ELSE st.basic.position

flight_state_get_best_position(st) ==
    IF st.nav_data.gps_valid THEN st.nav_data.gps_position
    ELSE IF st.nav_data.ins_valid THEN st.nav_data.ins_position
    ELSE IF st.nav_data.radio_valid THEN st.nav_data.radio_position
    ELSE st.basic.position

\* the switch of flight_state_update_position
SetNavSlot(st, pos, source) ==
    CASE source = COMPONENT_GPS ->
            [st EXCEPT !.nav_data.gps_valid = TRUE, !.nav_data.gps_position = pos]
      [] source = COMPONENT_INS ->
            [st EXCEPT !.nav_data.ins_valid = TRUE, !.nav_data.ins_position = pos]
      [] source = COMPONENT_LANDING_RADIO ->
            [st EXCEPT !.nav_data.radio_valid = TRUE, !.nav_data.radio_position = pos]
      [] OTHER -> st

\* (mutant) the slot is written, basic.position is not recomputed
flight_state_update_positionNoFusion(st, pos, source) ==
    SetNavSlot(st, pos, source)

flight_state_update_position(st, pos, source) ==
    IF source \in Sources
    THEN LET s1 == SetNavSlot(st, pos, source)
         IN [s1 EXCEPT !.basic.position = flight_state_get_best_position(s1)]
    ELSE st

\* (mutant) the update also switches the autopilot on
flight_state_update_autopilotEnables(st, target_altitude, target_heading, target_speed) ==
    [st EXCEPT !.autopilot.target_altitude = target_altitude,
               !.autopilot.target_heading = target_heading,
               !.autopilot.target_speed = target_speed,
               !.autopilot.enabled = TRUE]

flight_state_update_autopilot(st, target_altitude, target_heading, target_speed) ==
    [st EXCEPT !.autopilot.target_altitude = target_altitude,
               !.autopilot.target_heading = target_heading,
               !.autopilot.target_speed = target_speed]

\* handle_autopilot_command: the payload of an AUTOPILOT_COMMAND is the
\* record of its three targets
handle_autopilot_command(st, msg) ==
    LET cmd == msg.payload
    IN flight_state_update_autopilot(st, cmd.target_altitude, cmd.target_heading,
                                     cmd.target_speed)

\* send_control_command: the message it hands to bus_publish
send_control_command(target_heading, target_speed, target_altitude) ==
    [type |-> MSG_AUTOPILOT_COMMAND, sender |-> COMPONENT_AUTOPILOT,
     receiver |-> COMPONENT_FLIGHT_CONTROLLER,
     payload |-> [target_heading |-> target_heading,
                  target_speed |-> target_speed,
                  target_altitude |-> target_altitude]]

\* the switch of flight_state_update_system_status
SetSystemStatus(st, component, connected) ==
    CASE component = COMPONENT_GPS ->
            [st EXCEPT !.system_status.gps_connected = connected,
                       !.nav_data.gps_valid = IF connected THEN @ ELSE FALSE]
      [] component = COMPONENT_INS ->
            [st EXCEPT !.system_status.ins_operational = connected,
                       !.nav_data.ins_valid = IF connected THEN @ ELSE FALSE]
      [] component = COMPONENT_LANDING_RADIO ->
            [st EXCEPT !.system_status.landing_radio_connected = connected,
                       !.nav_data.radio_valid = IF connected THEN @ ELSE FALSE]
      [] component = COMPONENT_SAT_COM ->
            [st EXCEPT !.system_status.sat_com_connected = connected]
      [] OTHER -> st

flight_state_update_system_status(st, component, connected) ==
    IF component \in Sources \cup {COMPONENT_SAT_COM}
    THEN LET s1 == SetSystemStatus(st, component, connected)
         IN [s1 EXCEPT !.basic.position = flight_state_get_best_position(s1)]
    ELSE st

\* the nav slot and the status flag of navigation component c
SlotValid(st, c) ==
    CASE c = COMPONENT_GPS -> st.nav_data.gps_valid
      [] c = COMPONENT_INS -> st.nav_data.ins_valid
      [] OTHER -> st.nav_data.radio_valid

SlotPosition(st, c) ==
    CASE c = COMPONENT_GPS -> st.nav_data.gps_position
      [] c = COMPONENT_INS -> st.nav_data.ins_position
      [] OTHER -> st.nav_data.radio_position

Connected(st, c) ==
    CASE c = COMPONENT_GPS -> st.system_status.gps_connected
      [] c = COMPONENT_INS -> st.system_status.ins_operational
      [] OTHER -> st.system_status.landing_radio_connected

(***************************************************************************)
(* SpecFc: the flight controller's message loop, the components that      *)
(* publish to it and the autopilot that reads its responses, on the bus.   *)
(* bus_read_message and bus_publish are one step each; between the read of *)
(* a message and the publish of the response to it the other processes     *)
(* run.  The payload of a POSITION_UPDATE is the position, that of a       *)
(* STATE_RESPONSE the basic state (its position), that of a SYSTEM_STATUS  *)
(* component_active (1 or 0), that of an AUTOPILOT_COMMAND its targets.    *)
(***************************************************************************)
notFc == <<sem, segment, pc, now, published, delivered, redelivered, pruned,
           runB, age, lifetime, sup, autop, ord, fin>>

\* the bus_subscribe calls made at start-up, in their order:
\* flight_controller_init (four) and autopilot_init
StartupSubscriptions ==
    << <<COMPONENT_FLIGHT_CONTROLLER, MSG_POSITION_UPDATE>>,
       <<COMPONENT_FLIGHT_CONTROLLER, MSG_STATE_REQUEST>>,
       <<COMPONENT_FLIGHT_CONTROLLER, MSG_AUTOPILOT_COMMAND>>,
       <<COMPONENT_FLIGHT_CONTROLLER, MSG_SYSTEM_STATUS>>,
       <<COMPONENT_AUTOPILOT, MSG_STATE_RESPONSE>> >>

RECURSIVE SubscribeAll(_, _, _)
\* the bus after the calls numbered i, i+1, ... of StartupSubscriptions in I
SubscribeAll(b, I, i) ==
    IF i > Len(StartupSubscriptions) THEN b
    ELSE IF i \in I
         THEN SubscribeAll(bus_subscribe(b, StartupSubscriptions[i][1],
                                         StartupSubscriptions[i][2]).bus, I, i + 1)
         ELSE SubscribeAll(b, I, i + 1)

\* The table of the model is smaller than the five subscriptions of start-up:
\* a run holds those of one conversation (numbers in StartupSubscriptions),
\* the navigation components' messages to the flight controller, a position
\* and the request for the state, the autopilot's messages to the flight
\* controller, or the state request and its response, and the components
\* publish to the flight controller the message types it has subscribed to
\* (in the program, that is all of them).
Conversations == {{1, 4}, {1, 2}, {2, 3}, {2, 5}}

InitFc ==
    /\ \E I \in Conversations :
          bus = SubscribeAll(bus_attach(bus_init), I, 1)
    /\ sem = create_mutex
    /\ segment = TRUE
    /\ pc = [p \in Procs |-> "idle"]
    /\ now = MESSAGE_TIMEOUT_S
    /\ nextPayload = 0
    /\ last = NoOp
    /\ published = {}
    /\ delivered = {}
    /\ redelivered = {}
    /\ pruned = FALSE
    /\ busB = bus_init
    /\ lastB = NoOp
    /\ InitExt

Did(op) == [NoOp EXCEPT !.op = op]

\* the switch of flight_controller_process_messages on message m: the state
\* after the handler, the response it has built, if any, and where the
\* flight controller goes on
HandleMessage(st, m) ==
    CASE m.type = MSG_POSITION_UPDATE ->
            LET s1 == flight_state_update_position(st, m.payload, m.sender)
            IN [state |-> s1, response |-> StateResponse(COMPONENT_AUTOPILOT, s1),
                next |-> "respond_position"]
      [] m.type = MSG_STATE_REQUEST ->
            [state |-> st, response |-> StateResponse(m.sender, st),
             next |-> "respond_request"]
      [] m.type = MSG_AUTOPILOT_COMMAND ->
            [state |-> handle_autopilot_command(st, m),
             response |-> ZeroMessage, next |-> "read"]
      [] m.type = MSG_SYSTEM_STATUS ->
            [state |-> flight_state_update_system_status(st, m.sender, TRUE),
             response |-> ZeroMessage, next |-> "read"]
      [] OTHER ->
            [state |-> st, response |-> ZeroMessage, next |-> "read"]

\* since, after the state went from st to s1, a POSITION_UPDATE of the
\* component in from having been handled (from = 0: none)
SinceAfter(st, s1, from) ==
    [c \in Sources |->
        IF c = from THEN TRUE
        ELSE IF Connected(s1, c) # Connected(st, c) THEN FALSE
        ELSE since[c]]

\* one round of the while loop up to the handler's bus_publish
FcRead ==
    /\ fcpc = "read"
    /\ LET r == bus_read_message(bus, COMPONENT_FLIGHT_CONTROLLER, now)
           h == HandleMessage(state, r.message)
       IN /\ bus' = r.bus
          /\ last' = [Did("handle") EXCEPT !.found = r.found, !.message = r.message]
          /\ IF r.found
             THEN /\ state' = h.state
                  /\ response' = h.response
                  /\ fcpc' = h.next
                  /\ since' = SinceAfter(state, h.state,
                                         IF r.message.type = MSG_POSITION_UPDATE
                                         THEN r.message.sender ELSE 0)
             ELSE /\ fcpc' = "wait"
                  /\ response' = ZeroMessage
                  /\ UNCHANGED <<state, since>>
    /\ UNCHANGED <<nextPayload, notFc>>

\* bus_publish(fc->bus, &response) of handle_position_update and of the
\* STATE_REQUEST case, its result ignored
FcRespond ==
    /\ fcpc \in {"respond_position", "respond_request"}
    /\ LET r == bus_publish(bus, response)
       IN /\ bus' = r.bus
          /\ last' = [Did(fcpc) EXCEPT !.ret = r.ret, !.message = response]
    /\ fcpc' = "read"
    /\ response' = ZeroMessage
    /\ UNCHANGED <<nextPayload, state, since, notFc>>

\* the waitpid loop: waitpid returns the pid of component c, whose process
\* has ended; it is marked disconnected and spawned again
FcReap(c) ==
    /\ fcpc = "wait"
    /\ state' = flight_state_update_system_status(state, c, FALSE)
    /\ since' = SinceAfter(state, state', 0)
    /\ last' = NoOp
    /\ UNCHANGED <<bus, nextPayload, fcpc, response, notFc>>

\* waitpid finds no terminated child: the function returns, the main loop
\* calls it again
FcReturn ==
    /\ fcpc = "wait"
    /\ fcpc' = "read"
    /\ last' = NoOp
    /\ UNCHANGED <<bus, nextPayload, state, response, since, notFc>>

\* a component publishes message m
ComponentPublish(m) ==
    /\ nextPayload < MaxPublishFc
    /\ Subscribed(bus, COMPONENT_FLIGHT_CONTROLLER, m)
    /\ nextPayload' = nextPayload + 1
    /\ bus' = bus_publish(bus, m).bus
    /\ last' = NoOp

\* send_status_update of a navigation component: periodically and when its
\* link changes
SendStatus(c) ==
    /\ \E a \in {0, 1} :
          ComponentPublish([type |-> MSG_SYSTEM_STATUS, sender |-> c,
                            receiver |-> COMPONENT_FLIGHT_CONTROLLER,
                            payload |-> a])
    /\ UNCHANGED <<fc, notFc>>

\* publish_position of a navigation component
SendPosition(c) ==
    /\ ComponentPublish([type |-> MSG_POSITION_UPDATE, sender |-> c,
                         receiver |-> COMPONENT_FLIGHT_CONTROLLER,
                         payload |-> nextPayload + 1])
    /\ UNCHANGED <<fc, notFc>>

\* the autopilot asks for the state (request_state)
SendStateRequest ==
    /\ ComponentPublish([type |-> MSG_STATE_REQUEST, sender |-> COMPONENT_AUTOPILOT,
                         receiver |-> COMPONENT_FLIGHT_CONTROLLER, payload |-> 0])
    /\ UNCHANGED <<fc, notFc>>

\* the autopilot sends its command, with three different targets
SendAutopilotCommand ==
    /\ ComponentPublish(send_control_command(nextPayload + 1, nextPayload + 2,
                                             nextPayload + 3))
    /\ UNCHANGED <<fc, notFc>>

\* the autopilot reads what is there for it
AutopilotRead ==
    /\ bus' = bus_read_message(bus, COMPONENT_AUTOPILOT, now).bus
    /\ last' = NoOp
    /\ UNCHANGED <<nextPayload, fc, notFc>>

NextFc ==
    \/ FcRead
    \/ FcRespond
    \/ \E c \in Sources : FcReap(c)
    \/ FcReturn
    \/ \E c \in Sources : SendStatus(c)
    \/ \E c \in Sources : SendPosition(c)
    \/ SendStateRequest
    \/ SendAutopilotCommand
    \/ AutopilotRead

SpecFc == InitFc /\ [][NextFc]_vars

(***************************************************************************)
(* The flight controller's handlers                                        *)
(***************************************************************************)
AnyValid(st) == \E c \in Sources : SlotValid(st, c)

\* basic.position is the position of the first valid slot of GPS, INS, radio
Fused(st) ==
    /\ st.nav_data.gps_valid => st.basic.position = st.nav_data.gps_position
    /\ (~st.nav_data.gps_valid /\ st.nav_data.ins_valid)
          => st.basic.position = st.nav_data.ins_position
    /\ (~st.nav_data.gps_valid /\ ~st.nav_data.ins_valid /\ st.nav_data.radio_valid)
          => st.basic.position = st.nav_data.radio_position

\* the step is a round of the loop that has read a message of type t
Handles(t) ==
    /\ last'.op = "handle"
    /\ last'.found
    /\ last'.message.type = t

\* the step is the bus_publish of a response at position pos of the handlers
Responds(pos) == last'.op = pos

\* the response is appended to the queue
ResponseEnqueued ==
    /\ last'.ret = SUCCESS
    /\ bus'.queue.messages[bus.queue.write_idx] = response
    /\ bus'.queue.count = bus.queue.count + 1

\* the response is published if the queue has room, dropped if it is full
ResponseQueuePermitting ==
    IF bus.queue.count < MAX_BUS_MESSAGES
    THEN ResponseEnqueued
    ELSE bus' = bus /\ last'.ret # SUCCESS

\* C16: between handlers, basic.position is the GPS slot's position if
\* gps_valid, else the INS slot's if ins_valid, else the radio slot's if
\* radio_valid; a step that leaves all three slots invalid leaves
\* basic.position as it was.
C16_PositionFusionStep ==
    /\ Fused(state')
    /\ ~AnyValid(state') => state'.basic.position = state.basic.position

C17_StatusHandledStep ==
    (Handles(MSG_SYSTEM_STATUS) /\ last'.message.sender \in Sources) =>
        LET S == last'.message.sender
            a == last'.message.payload = 1
        IN /\ Connected(state', S) = a
           /\ ~a => ~SlotValid(state', S)
           /\ Fused(state')

C17_StatusHandled == [][C17_StatusHandledStep]_vars

\* C18: a slot's valid bit is true if and only if the component's flag is
\* true and a POSITION_UPDATE of the component has been handled since the
\* flag last changed.
C18_ValidIffConnectedAndProduced ==
    \A c \in Sources :
        SlotValid(state, c) <=> (Connected(state, c) /\ since[c])

\* C19: handling POSITION_UPDATE(sender = S, position = P) of a navigation
\* component makes slot S valid with position P and basic.position the best
\* position, and builds one STATE_RESPONSE from the flight controller to the
\* autopilot that carries the updated basic state (P when S is GPS); the
\* bus_publish that follows appends it to the queue if the queue has room
\* and changes nothing otherwise.
C19_PositionHandledStep ==
    /\ (Handles(MSG_POSITION_UPDATE) /\ last'.message.sender \in Sources) =>
          LET S == last'.message.sender
              P == last'.message.payload
          IN /\ SlotValid(state', S)
             /\ SlotPosition(state', S) = P
             /\ Fused(state')
             /\ fcpc' = "respond_position"
             /\ response' = [type |-> MSG_STATE_RESPONSE,
                             sender |-> COMPONENT_FLIGHT_CONTROLLER,
                             receiver |-> COMPONENT_AUTOPILOT,
                             payload |-> state'.basic.position]
             /\ S = COMPONENT_GPS => response'.payload = P
    /\ Responds("respond_position") =>
          /\ ResponseQueuePermitting
          /\ state' = state
          /\ fcpc' = "read"

C19_PositionHandled == [][C19_PositionHandledStep]_vars

\* the response to a POSITION_UPDATE of the GPS, the only valid source, is in
\* the queue
C19_Witness ==
    /\ last.op = "respond_position"
    /\ last.ret = SUCCESS
    /\ last.message.receiver = COMPONENT_AUTOPILOT
    /\ state.nav_data.gps_valid
    /\ ~state.nav_data.ins_valid
    /\ ~state.nav_data.radio_valid
    /\ last.message.payload = state.nav_data.gps_position
    /\ \E i \in Slots : bus.queue.messages[i] = last.message
    /\ bus.queue.count > 0

\* what the STATE_REQUEST case does up to its bus_publish: the state is left
\* as it is and one STATE_RESPONSE from the flight controller to the sender
\* of the request is built from the basic state
RequestHandled ==
    Handles(MSG_STATE_REQUEST) =>
        /\ state' = state
        /\ fcpc' = "respond_request"
        /\ response' = [type |-> MSG_STATE_RESPONSE,
                        sender |-> COMPONENT_FLIGHT_CONTROLLER,
                        receiver |-> last'.message.sender,
                        payload |-> state.basic.position]

\* C20 as stated: every STATE_REQUEST read makes the flight controller
\* publish exactly one STATE_RESPONSE to its sender with the current basic
\* state, and leaves the state unchanged.
C20_RequestAnsweredStep ==
    /\ RequestHandled
    /\ Responds("respond_request") =>
          /\ ResponseEnqueued
          /\ state' = state
          /\ fcpc' = "read"

C20_RequestAnswered == [][C20_RequestAnsweredStep]_vars

\* C20: every STATE_REQUEST read makes the flight controller call bus_publish
\* once with a STATE_RESPONSE to its sender that carries the current basic
\* state; the response is appended to the queue if the queue has room and
\* dropped if it is full; the state is unchanged.
C20_RequestAnsweredQueuePermittingStep ==
    /\ RequestHandled
    /\ Responds("respond_request") =>
          /\ ResponseQueuePermitting
          /\ state' = state
          /\ fcpc' = "read"

C20_RequestAnsweredQueuePermitting == [][C20_RequestAnsweredQueuePermittingStep]_vars

\* the response to a request of the autopilot is in the queue, with the basic
\* state a POSITION_UPDATE has set
C20_Witness ==
    /\ last.op = "respond_request"
    /\ last.ret = SUCCESS
    /\ last.message.type = MSG_STATE_RESPONSE
    /\ last.message.receiver = COMPONENT_AUTOPILOT
    /\ last.message.payload # 0
    /\ last.message.payload = state.basic.position
    /\ \E i \in Slots : bus.queue.messages[i] = last.message

\* C21: handling AUTOPILOT_COMMAND copies the command's three targets into
\* state.autopilot and changes nothing else: the basic state, nav_data,
\* autopilot.enabled and the connected flags are as before, no response is
\* built and nothing is written to the queue.
C21_CommandHandledStep ==
    Handles(MSG_AUTOPILOT_COMMAND) =>
        LET cmd == last'.message.payload
        IN /\ state'.autopilot.target_altitude = cmd.target_altitude
           /\ state'.autopilot.target_heading = cmd.target_heading
           /\ state'.autopilot.target_speed = cmd.target_speed
           /\ state'.autopilot.enabled = state.autopilot.enabled
           /\ state'.basic = state.basic
           /\ state'.nav_data = state.nav_data
           /\ state'.system_status = state.system_status
           /\ response' = ZeroMessage
           /\ fcpc' = "read"
           /\ bus'.queue.write_idx = bus.queue.write_idx
           /\ bus'.queue.messages = bus.queue.messages

notSup == <<pc, now, nextPayload, hist, runB, age, life, component_pids,
            attaches, detaches, forks, fcpc, response, since, autop, ord, fin>>

InitSupervisor ==
    /\ bus = bus_subscribe(bus_init, COMPONENT_FLIGHT_CONTROLLER,
                           MSG_POSITION_UPDATE).bus
    /\ sem = create_mutex
    /\ segment = TRUE
    /\ pc = [p \in Procs |-> "idle"]
    /\ now = MESSAGE_TIMEOUT_S
    /\ nextPayload = 0
    /\ last = NoOp
    /\ published = {}
    /\ delivered = {}
    /\ redelivered = {}
    /\ pruned = FALSE
    /\ busB = bus_init
    /\ lastB = NoOp
    /\ InitExt

InCritical == {"attach", "critical"}

Living == {"forked", "attach", "running", "critical"}

\* (mutant) every pid is recorded under the autopilot's id
RecordPidFirst(pids, component, pid) ==
    [pids EXCEPT ![COMPONENT_AUTOPILOT] = pid]

\* fc->component_pids[component] = pid
RecordPid(pids, component, pid) == [pids EXCEPT ![component] = pid]

\* (mutant) flight_controller_spawn_component without its range check
flight_controller_spawn_componentUnchecked(pids, component, pid) ==
    IF pid = -1
    THEN [ret |-> ERROR_GENERAL, forked |-> FALSE, pids |-> pids]
    ELSE [ret |-> SUCCESS, forked |-> TRUE,
          pids |-> RecordPid(pids, component, pid)]

\* flight_controller_spawn_component in the parent: pid is what fork
\* returns, -1 when it fails; forked tells whether a process was created
flight_controller_spawn_component(pids, component, pid) ==
    IF component >= MAX_COMPONENTS
    THEN [ret |-> ERROR_GENERAL, forked |-> FALSE, pids |-> pids]
    ELSE IF pid = -1
         THEN [ret |-> ERROR_GENERAL, forked |-> FALSE, pids |-> pids]
         ELSE [ret |-> SUCCESS, forked |-> TRUE,
               pids |-> RecordPid(pids, component, pid)]

\* flight_controller_spawn_component, the parent's side: fork, record the pid
SupSpawn(c, pids) ==
    /\ spawns < MaxSpawns
    /\ spawns' = spawns + 1
    /\ child' = [child EXCEPT ![c] = "forked"]
    /\ child_pid' = [child_pid EXCEPT ![c] = spawns + 1]
    /\ fc_pids' = flight_controller_spawn_component(pids, c, spawns + 1).pids

\* one turn of the for loop of flight_controller_start
SupStartSpawn ==
    /\ suppc = "start"
    /\ Len(started) < Len(components)
    /\ LET c == components[Len(started) + 1]
       IN /\ SupSpawn(c, fc_pids)
          /\ started' = Append(started, c)
    /\ UNCHANGED <<bus, sem, segment, running, state, fc_running, suppc,
                   cursor, sig, worked, notSup>>

\* the end of flight_controller_start: fc->running = true, back in main
SupStartDone ==
    /\ suppc = "start"
    /\ Len(started) = Len(components)
    /\ fc_running' = TRUE
    /\ suppc' = "loop"
    /\ UNCHANGED <<bus, sem, segment, running, state, child, child_pid,
                   fc_pids, cursor, started, sig, worked, spawns, notSup>>

\* handle_signal in the root, before flight_controller_cleanup has begun
SupSignal ==
    /\ running
    /\ suppc \in {"start", "loop", "read", "wait"}
    /\ running' = FALSE
    /\ UNCHANGED <<bus, sem, segment, state, sup, notSup>>

\* handle_signal while the root is blocked in the sem_wait of
\* bus_read_message: sem_wait gives EINTR and the read goes on unlocked
SupInterrupted ==
    /\ running
    /\ fc_running
    /\ suppc = "loop"
    /\ sem = 0
    /\ running' = FALSE
    /\ suppc' = "read"
    /\ UNCHANGED <<bus, sem, segment, state, child, child_pid, fc_pids,
                   fc_running, cursor, started, sig, worked, spawns, notSup>>

\* while (running) of main, flight_controller_process_messages, the
\* sem_wait of its bus_read_message
SupEnterRead ==
    /\ suppc = "loop"
    /\ running
    /\ fc_running
    /\ sem > 0
    /\ sem' = sem - 1
    /\ suppc' = "read"
    /\ UNCHANGED <<bus, segment, running, state, child, child_pid, fc_pids,
                   fc_running, cursor, started, sig, worked, spawns, notSup>>

\* bus_read_message finds nothing and posts; the read loop ends
SupRead ==
    /\ suppc = "read"
    /\ sem' = sem + 1
    /\ suppc' = "wait"
    /\ worked' = TRUE
    /\ UNCHANGED <<bus, segment, running, state, child, child_pid, fc_pids,
                   fc_running, cursor, started, sig, spawns, notSup>>

\* one turn of the waitpid loop: the process of component c was a zombie
SupReap(c) ==
    /\ suppc = "wait"
    /\ child[c] = "zombie"
    /\ worked' = TRUE
    /\ LET match == {i \in Spawned : fc_pids[i] = child_pid[c]}
       IN IF match = {}
          THEN /\ child' = [child EXCEPT ![c] = "gone"]
               /\ child_pid' = [child_pid EXCEPT ![c] = 0]
               /\ UNCHANGED <<state, fc_pids, spawns>>
          ELSE LET i == CHOOSE j \in match : \A k \in match : j <= k
               IN /\ state' = flight_state_update_system_status(state, i, FALSE)
                  /\ SupSpawn(i, RecordPid(fc_pids, i, 0))
    /\ UNCHANGED <<bus, sem, segment, running, fc_running, suppc, cursor,
                   started, sig, notSup>>

\* waitpid finds no terminated child: back to main's loop
SupReturn ==
    /\ suppc = "wait"
    /\ \A c \in Spawned : child[c] # "zombie"
    /\ suppc' = "loop"
    /\ UNCHANGED <<bus, sem, segment, running, state, child, child_pid,
                   fc_pids, fc_running, cursor, started, sig, worked, spawns,
                   notSup>>

\* main's loop ends, main returns, exit runs cleanup and
\* flight_controller_cleanup begins: fc->running = false
SupLeaveLoop ==
    /\ suppc = "loop"
    /\ ~running
    /\ fc_running' = FALSE
    /\ cursor' = 0
    /\ suppc' = "cleanup"
    /\ UNCHANGED <<bus, sem, segment, running, state, child, child_pid,
                   fc_pids, started, sig, worked, spawns, notSup>>

\* the for loop of flight_controller_cleanup passes a zero pid
SupCleanupSkip ==
    /\ suppc = "cleanup"
    /\ cursor < MAX_COMPONENTS
    /\ fc_pids[cursor] = 0
    /\ cursor' = cursor + 1
    /\ UNCHANGED <<bus, sem, segment, running, state, child, child_pid,
                   fc_pids, fc_running, suppc, started, sig, worked, spawns,
                   notSup>>

\* kill(pid, SIGTERM) and the first waitpid(WNOHANG).  The child runs the
\* handler it inherited and lives on; blocked in a sem_wait it may come out
\* of it with EINTR and go on unlocked.
SupCleanupTerm ==
    /\ suppc = "cleanup"
    /\ cursor < MAX_COMPONENTS
    /\ fc_pids[cursor] > 0
    /\ sig' = [sig EXCEPT ![cursor] = Append(@, "SIGTERM")]
    /\ IF child[cursor] = "zombie"
       THEN /\ child' = [child EXCEPT ![cursor] = "gone"]
            /\ fc_pids' = RecordPid(fc_pids, cursor, 0)
            /\ cursor' = cursor + 1
            /\ UNCHANGED suppc
       ELSE /\ suppc' = "sleep"
            /\ \/ UNCHANGED child
               \/ /\ sem = 0
                  /\ child[cursor] \in {"forked", "running"}
                  /\ child' = [child EXCEPT ![cursor] =
                                   IF @ = "forked" THEN "attach" ELSE "critical"]
            /\ UNCHANGED <<fc_pids, cursor>>
    /\ UNCHANGED <<bus, sem, segment, running, state, child_pid, fc_running,
                   started, worked, spawns, notSup>>

\* after usleep(100000): the second waitpid(WNOHANG), and for a child still
\* alive kill(pid, SIGKILL) and the blocking waitpid
SupCleanupKill ==
    /\ suppc = "sleep"
    /\ sig' = [sig EXCEPT ![cursor] =
                   IF child[cursor] = "zombie" THEN @ ELSE Append(@, "SIGKILL")]
    /\ child' = [child EXCEPT ![cursor] = "gone"]
    /\ fc_pids' = RecordPid(fc_pids, cursor, 0)
    /\ cursor' = cursor + 1
    /\ suppc' = "cleanup"
    /\ UNCHANGED <<bus, sem, segment, running, state, child_pid, fc_running,
                   started, worked, spawns, notSup>>

\* the sem_wait of bus_cleanup(fc->bus), after the for loop
SupBusCleanupWait ==
    /\ suppc = "cleanup"
    /\ cursor = MAX_COMPONENTS
    /\ sem > 0
    /\ sem' = sem - 1
    /\ suppc' = "bus_cleanup"
    /\ UNCHANGED <<bus, segment, running, state, child, child_pid, fc_pids,
                   fc_running, cursor, started, sig, worked, spawns, notSup>>

\* bus_cleanup(fc->bus): ref_count--, sem_post, shmdt (and the removal of
\* semaphore and segment at zero)
SupBusCleanup ==
    /\ suppc = "bus_cleanup"
    /\ bus' = bus_cleanup(bus)
    /\ sem' = sem + 1
    /\ segment' = (segment /\ bus'.ref_count # 0)
    /\ suppc' = "detached"
    /\ UNCHANGED <<running, state, child, child_pid, fc_pids, fc_running,
                   cursor, started, sig, worked, spawns, notSup>>

\* cleanup of main.c goes on to bus_cleanup(bus) on the address that was
\* just unmapped: the read of bus->ref_count faults and the process ends
SupExit ==
    /\ suppc = "detached"
    /\ suppc' = "dead"
    /\ UNCHANGED <<bus, sem, segment, running, state, child, child_pid,
                   fc_pids, fc_running, cursor, started, sig, worked, spawns,
                   notSup>>

\* a child passes the sem_wait of bus_attach or of another bus operation
ChildSemWait(c) ==
    /\ child[c] \in {"forked", "running"}
    /\ sem > 0
    /\ sem' = sem - 1
    /\ child' = [child EXCEPT ![c] = IF @ = "forked" THEN "attach" ELSE "critical"]
    /\ UNCHANGED <<bus, segment, running, state, child_pid, fc_pids,
                   fc_running, suppc, cursor, started, sig, worked, spawns,
                   notSup>>

\* the body of the operation (ref_count++ for bus_attach) and its sem_post
ChildSemPost(c) ==
    /\ child[c] \in InCritical
    /\ bus' = IF child[c] = "attach" THEN bus_attach(bus) ELSE bus
    /\ sem' = sem + 1
    /\ child' = [child EXCEPT ![c] = "running"]
    /\ UNCHANGED <<segment, running, state, child_pid, fc_pids, fc_running,
                   suppc, cursor, started, sig, worked, spawns, notSup>>

\* a fatal signal ends the child where it stands; nothing posts for it
ChildCrash(c) ==
    /\ child[c] \in Living
    /\ child' = [child EXCEPT ![c] = "zombie"]
    /\ UNCHANGED <<bus, sem, segment, running, state, child_pid, fc_pids,
                   fc_running, suppc, cursor, started, sig, worked, spawns,
                   notSup>>

NextSup ==
    \/ SupStartSpawn
    \/ SupStartDone
    \/ SupSignal
    \/ SupInterrupted
    \/ SupEnterRead
    \/ SupRead
    \/ \E c \in Spawned : SupReap(c)
    \/ SupReturn
    \/ SupLeaveLoop
    \/ SupCleanupSkip
    \/ SupCleanupTerm
    \/ SupCleanupKill
    \/ SupBusCleanupWait
    \/ SupBusCleanup
    \/ SupExit
    \/ \E c \in Spawned : ChildSemWait(c)
    \/ \E c \in Spawned : ChildSemPost(c)
    \/ \E c \in Spawned : ChildCrash(c)

SpecSup == InitSupervisor /\ [][NextSup]_vars


\* no living process stands between a sem_wait and its sem_post
NobodyWillPost ==
    /\ \A d \in Spawned : child[d] \notin InCritical
    /\ suppc \notin {"read", "bus_cleanup"}

\* C22: while the supervisor runs, every terminated child is eventually
\* reaped and replaced.  Read on finite runs: a terminated child is never
\* left with a supervisor that waits, its signal flag still set, for a mutex
\* that no living process holds.
C22_TerminatedChildIsReaped ==
    \A c \in Spawned :
        ~ /\ child[c] = "zombie"
          /\ running
          /\ fc_running
          /\ suppc = "loop"
          /\ sem = 0
          /\ NobodyWillPost

C24_ShutdownTerminates ==
    ~ /\ suppc = "cleanup"
      /\ cursor = MAX_COMPONENTS
      /\ sem = 0
      /\ \A c \in Spawned : child[c] \in {"unborn", "gone"}


(***************************************************************************)
(* autopilot.c: update_pid_controls.  The doubles of the source are exact  *)
(* numbers here: targets, limits and the current state are whole units,    *)
(* gains are hundredths, an integral is kept in units of dt (tenths) and   *)
(* outputs and commanded values in units of 1/Unit (thousandths), so that  *)
(* every product and quotient of the source is a whole number of its unit. *)
(* Rounding, infinities and NaN of IEEE arithmetic are not in the model.   *)
(***************************************************************************)
\* 1 / dt, with dt = UPDATE_INTERVAL_MS / 1000.0
PerSecond == 1000 \div UPDATE_INTERVAL_MS

\* what a whole unit is in the unit of outputs: gains are hundredths
Unit == 100 * PerSecond

fmax(a, b) == IF a >= b THEN a ELSE b

fmin(a, b) == IF a <= b THEN a ELSE b

\* (mutant) an error that is never brought back by a turn
HeadingErrorRaw(target_heading, heading) == target_heading - heading

\* heading_error = target - current, then the two ifs
HeadingError(target_heading, heading) ==
    LET e0 == target_heading - heading
        e1 == IF e0 > 180 THEN e0 - 360 ELSE e0
    IN IF e1 < -180 THEN e1 + 360 ELSE e1

\* pid[0] * error + pid[1] * integral + pid[2] * derivative, in 1/Unit
PidOutput(pid, error, integral, derivative) ==
    pid[1] * error * PerSecond + pid[2] * integral + pid[3] * derivative * PerSecond

\* fmax(-max_heading_rate, fmin(max_heading_rate, heading_output))
LimitHeadingRate(cfg, output) ==
    fmax(-(cfg.max_heading_rate * Unit), fmin(cfg.max_heading_rate * Unit, output))

\* (mutant) the climb limit on both sides
LimitVerticalSpeedClimbOnly(cfg, output) ==
    IF output > 0 THEN fmin(output, cfg.max_climb_rate * Unit)
    ELSE fmax(output, -(cfg.max_climb_rate * Unit))

\* if (altitude_output > 0) fmin(.., max_climb_rate) else fmax(.., -max_descent_rate)
LimitVerticalSpeed(cfg, output) ==
    IF output > 0 THEN fmin(output, cfg.max_climb_rate * Unit)
    ELSE fmax(output, -(cfg.max_descent_rate * Unit))

\* (mutant) a speed limited from below only
LimitSpeedBelow(cfg, speed, output) ==
    fmax(cfg.min_speed * Unit, speed * Unit + output) - speed * Unit

\* fmax(min_speed, fmin(max_speed, speed + speed_output)) - speed
LimitSpeed(cfg, speed, output) ==
    fmax(cfg.min_speed * Unit, fmin(cfg.max_speed * Unit, speed * Unit + output))
        - speed * Unit

RECURSIVE NormaliseHeading(_)
\* while (new_heading >= 360.0) -= 360.0; while (new_heading < 0.0) += 360.0
NormaliseHeading(h) ==
    IF h >= 360 * Unit THEN NormaliseHeading(h - 360 * Unit)
    ELSE IF h < 0 THEN NormaliseHeading(h + 360 * Unit)
    ELSE h

\* update_pid_controls on configuration cfg, current state cur and PID state
\* ps: the PID state after it, the three limited outputs and the command
update_pid_controls(cfg, cur, ps) ==
    LET heading_error == HeadingError(cfg.target_heading, cur.heading)
        heading_integral == ps.heading_integral + heading_error
        heading_derivative == (heading_error - ps.heading_last_error) * PerSecond
        heading_output ==
            LimitHeadingRate(cfg, PidOutput(cfg.heading_pid, heading_error,
                                            heading_integral, heading_derivative))
        altitude_error == cfg.target_altitude - cur.altitude
        altitude_integral == ps.altitude_integral + altitude_error
        altitude_derivative == (altitude_error - ps.altitude_last_error) * PerSecond
        altitude_output ==
            LimitVerticalSpeed(cfg, PidOutput(cfg.altitude_pid, altitude_error,
                                              altitude_integral, altitude_derivative))
        speed_error == cfg.target_speed - cur.speed
        speed_integral == ps.speed_integral + speed_error
        speed_derivative == (speed_error - ps.speed_last_error) * PerSecond
        speed_output ==
            LimitSpeed(cfg, cur.speed,
                       PidOutput(cfg.speed_pid, speed_error, speed_integral,
                                 speed_derivative))
        new_heading == NormaliseHeading(cur.heading * Unit + heading_output)
        new_altitude == cur.altitude * Unit + altitude_output
        new_speed == cur.speed * Unit + speed_output
    IN [pid_state |-> [heading_integral |-> heading_integral,
                       heading_last_error |-> heading_error,
                       altitude_integral |-> altitude_integral,
                       altitude_last_error |-> altitude_error,
                       speed_integral |-> speed_integral,
                       speed_last_error |-> speed_error],
        heading_error |-> heading_error,
        heading_output |-> heading_output,
        altitude_output |-> altitude_output,
        speed_output |-> speed_output,
        command |-> send_control_command(new_heading, new_speed, new_altitude)]

(***************************************************************************)
(* SpecPid: update_pid_controls run MaxPidTicks times on a configuration   *)
(* autopilot_load_config can give (any value of the file replaces a        *)
(* default) and on current states a STATE_RESPONSE can carry.              *)
(***************************************************************************)
notPid == <<bus, sem, segment, pc, now, nextPayload, hist, runB, age, lifetime,
            fc, sup, state_valid, last_state_request, appc, ord, fin>>

\* target headings, one of them more than a turn away from every heading
TargetHeadings == {0, 10, 180, 560}

Headings == {0, 180, 350, 353}

\* limits of a configuration file: the defaults, limits of zero, a minimum
\* above the maximum, negative rates
Limits ==
    {[max_climb_rate |-> DEFAULT_MAX_CLIMB_RATE,
      max_descent_rate |-> DEFAULT_MAX_DESCENT_RATE,
      max_speed |-> DEFAULT_MAX_SPEED, min_speed |-> DEFAULT_MIN_SPEED,
      max_heading_rate |-> DEFAULT_MAX_HEADING_RATE],
     [max_climb_rate |-> 0, max_descent_rate |-> 0,
      max_speed |-> DEFAULT_MIN_SPEED, min_speed |-> DEFAULT_MIN_SPEED,
      max_heading_rate |-> 0],
     [max_climb_rate |-> -100, max_descent_rate |-> -100,
      max_speed |-> DEFAULT_MIN_SPEED, min_speed |-> DEFAULT_MAX_SPEED,
      max_heading_rate |-> -1]}

Configs ==
    {[DefaultConfig EXCEPT !.target_heading = th, !.target_speed = ts,
                           !.heading_pid = hp, !.speed_pid = sp,
                           !.max_climb_rate = l.max_climb_rate,
                           !.max_descent_rate = l.max_descent_rate,
                           !.max_speed = l.max_speed,
                           !.min_speed = l.min_speed,
                           !.max_heading_rate = l.max_heading_rate] :
        th \in TargetHeadings, ts \in {250, 500},
        hp \in {DEFAULT_HEADING_PID, <<100, 0, 0>>},
        sp \in {DEFAULT_SPEED_PID, <<30, 0, 0>>}, l \in Limits}

CurrentStates ==
    {[heading |-> h, speed |-> v, altitude |-> a] :
        h \in Headings, v \in {0, 340}, a \in {0, 12000}}

InitPid ==
    /\ bus = bus_init
    /\ sem = create_mutex
    /\ segment = TRUE
    /\ pc = [p \in Procs |-> "idle"]
    /\ now = MESSAGE_TIMEOUT_S
    /\ nextPayload = 0
    /\ last = NoOp
    /\ published = {}
    /\ delivered = {}
    /\ redelivered = {}
    /\ pruned = FALSE
    /\ busB = bus_init
    /\ lastB = NoOp
    /\ enqueued = [i \in Slots |-> 0]
    /\ observed = 0
    /\ life = [p \in Children \cup {Root} |-> IF p = Root THEN "loop" ELSE "unborn"]
    /\ component_pids = [c \in Children |-> FALSE]
    /\ running = TRUE
    /\ attaches = 1
    /\ detaches = 0
    /\ forks = 0
    /\ state = flight_state_init
    /\ fcpc = "read"
    /\ response = ZeroMessage
    /\ since = [c \in Sources |-> FALSE]
    /\ InitSup
    /\ config \in Configs
    /\ current_state = ZeroFlightState
    /\ state_valid = FALSE
    /\ last_state_request = 0
    /\ pid_state = ZeroPidState
    /\ appc = "request"
    /\ log = <<>>
    /\ InitOrd
    /\ InitFin

\* what a run of update_pid_controls on cur leaves in the log
LogEntry(cur, r) ==
    [current |-> cur, heading_error |-> r.heading_error,
     heading_output |-> r.heading_output,
     altitude_output |-> r.altitude_output, speed_output |-> r.speed_output,
     command |-> r.command.payload]

\* one run of update_pid_controls on the current state cur
PidTick(cur) ==
    /\ Len(log) < MaxPidTicks
    /\ current_state' = cur
    /\ LET r == update_pid_controls(config, cur, pid_state)
       IN /\ pid_state' = r.pid_state
          /\ log' = Append(log, LogEntry(cur, r))
    /\ UNCHANGED <<config, notPid>>

NextPid == \E cur \in CurrentStates : PidTick(cur)

SpecPid == InitPid /\ [][NextPid]_vars


\* C27: with min_speed <= max_speed the commanded target_speed of every run
\* lies in [min_speed, max_speed]; current speed 340 with target 500, Kp 0.3,
\* limits 120 and 350 gives an applied change of 10 and a command of 350
\* (gains (0.3, 0, 0)).
C27_SpeedWithinLimits ==
    \A i \in 1..Len(log) :
        /\ config.min_speed <= config.max_speed =>
               /\ log[i].command.target_speed >= config.min_speed * Unit
               /\ log[i].command.target_speed <= config.max_speed * Unit
        /\ ( /\ log[i].current.speed = 340
             /\ config.target_speed = 500
             /\ config.speed_pid = <<30, 0, 0>>
             /\ config.min_speed = 120
             /\ config.max_speed = 350 ) =>
               /\ log[i].speed_output = 10 * Unit
               /\ log[i].command.target_speed = 350 * Unit

\* the run of the example: 340 knots, target 500, limits 120 and 350
C27_Witness ==
    \E i \in 1..Len(log) :
        /\ log[i].current.speed = 340
        /\ config.target_speed = 500
        /\ config.speed_pid = <<30, 0, 0>>
        /\ config.min_speed = 120
        /\ config.max_speed = 350
        /\ log[i].speed_output = 10 * Unit
        /\ log[i].command.target_speed = 350 * Unit

\* C28: with non-negative limits the commanded target_altitude of every run
\* is the current altitude plus a change in [-max_descent_rate,
\* max_climb_rate], and the heading output is at most max_heading_rate in
\* magnitude.
C28_RatesWithinLimits ==
    \A i \in 1..Len(log) :
        LET delta == log[i].command.target_altitude - log[i].current.altitude * Unit
        IN /\ (config.max_climb_rate >= 0 /\ config.max_descent_rate >= 0) =>
                  /\ delta >= -(config.max_descent_rate * Unit)
                  /\ delta <= config.max_climb_rate * Unit
           /\ config.max_heading_rate >= 0 =>
                  /\ log[i].heading_output >= -(config.max_heading_rate * Unit)
                  /\ log[i].heading_output <= config.max_heading_rate * Unit

\* a climb held at max_climb_rate, then a descent held at max_descent_rate,
\* with the heading output at max_heading_rate
C28_Witness ==
    /\ Len(log) = 2
    /\ config.max_climb_rate > 0
    /\ config.max_descent_rate > 0
    /\ config.max_heading_rate > 0
    /\ log[1].command.target_altitude =
           log[1].current.altitude * Unit + config.max_climb_rate * Unit
    /\ log[2].command.target_altitude =
           log[2].current.altitude * Unit - config.max_descent_rate * Unit
    /\ log[2].heading_output = config.max_heading_rate * Unit

\* C29: the commanded heading of every run is the current heading plus the
\* limited heading output, modulo 360, in [0, 360); from 350 with target 10,
\* max_heading_rate 3 and gains (1, 0, 0) the error is +20, the output +3 and
\* the command 353, and the next run, from 353, commands 356.
C29_CommandedHeading ==
    \A i \in 1..Len(log) :
        LET example == /\ config.target_heading = 10
                       /\ config.max_heading_rate = 3
                       /\ config.heading_pid = <<100, 0, 0>>
                       /\ log[1].current.heading = 350
        IN /\ log[i].command.target_heading >= 0
           /\ log[i].command.target_heading < 360 * Unit
           /\ log[i].command.target_heading =
                  (log[i].current.heading * Unit + log[i].heading_output
                       + 360 * Unit) % (360 * Unit)
           /\ (example /\ i = 1) =>
                  /\ log[i].heading_error = 20
                  /\ log[i].heading_output = 3 * Unit
                  /\ log[i].command.target_heading = 353 * Unit
           /\ (example /\ i = 2 /\ log[i].current.heading = 353) =>
                  log[i].command.target_heading = 356 * Unit

\* the two runs of the example
C29_Witness ==
    /\ Len(log) = 2
    /\ config.target_heading = 10
    /\ config.max_heading_rate = 3
    /\ config.heading_pid = <<100, 0, 0>>
    /\ log[1].current.heading = 350
    /\ log[1].command.target_heading = 353 * Unit
    /\ log[2].current.heading = 353
    /\ log[2].command.target_heading = 356 * Unit

\* C30: the heading error of every run is in [-180, 180] and is the same
\* for a target heading a whole number of turns away.
C30_HeadingErrorNormalised ==
    \A i \in 1..Len(log) :
        /\ log[i].heading_error >= -180
        /\ log[i].heading_error <= 180
        /\ \A k \in -2..2 :
               HeadingError(config.target_heading + 360 * k,
                            log[i].current.heading) = log[i].heading_error


(***************************************************************************)
(* SpecAp: autopilot_process against the flight controller's loop.  The    *)
(* table holds the two subscriptions of the request and its response; the  *)
(* clock starts past MESSAGE_TIMEOUT_S, as time(NULL) is.  basic.heading   *)
(* and basic.speed keep the zeros of flight_state_init in this program, so *)
(* a STATE_RESPONSE brings the position only.                              *)
(***************************************************************************)
notAp == <<sem, segment, pc, published, redelivered, pruned, runB, age,
           lifetime, sup, config, log, ord, fin>>

InitAp ==
    /\ bus = SubscribeAll(bus_attach(bus_init), {2, 5}, 1)
    /\ sem = create_mutex
    /\ segment = TRUE
    /\ pc = [p \in Procs |-> "idle"]
    /\ now = MESSAGE_TIMEOUT_S + 1
    /\ nextPayload = 0
    /\ last = NoOp
    /\ published = {}
    /\ delivered = {}
    /\ redelivered = {}
    /\ pruned = FALSE
    /\ busB = bus_init
    /\ lastB = NoOp
    /\ InitExt

\* the message request_state builds
StateRequest ==
    [type |-> MSG_STATE_REQUEST, sender |-> COMPONENT_AUTOPILOT,
     receiver |-> COMPONENT_FLIGHT_CONTROLLER, payload |-> 0]

\* the start of autopilot_process: request_state when the last request is
\* STATE_REQUEST_INTERVAL_S old; last_state_request is set whatever
\* bus_publish returned
ApRequest ==
    /\ appc = "request"
    /\ IF now - last_state_request >= STATE_REQUEST_INTERVAL_S
       THEN /\ nextPayload < MaxPublishAp
            /\ nextPayload' = nextPayload + 1
            /\ LET r == bus_publish(bus, StateRequest)
               IN /\ bus' = r.bus
                  /\ last' = [Did("request") EXCEPT !.ret = r.ret,
                                                    !.message = StateRequest]
            /\ last_state_request' = now
       ELSE /\ last' = NoOp
            /\ UNCHANGED <<bus, nextPayload, last_state_request>>
    /\ appc' = "drain"
    /\ UNCHANGED <<now, delivered, current_state, state_valid, pid_state, fc,
                   notAp>>

\* one round of the while loop of autopilot_process
ApDrain ==
    /\ appc = "drain"
    /\ LET r == bus_read_message(bus, COMPONENT_AUTOPILOT, now)
       IN /\ bus' = r.bus
          /\ last' = [Did("drain") EXCEPT !.found = r.found, !.message = r.message]
          /\ delivered' = IF r.found THEN delivered \cup {r.message} ELSE delivered
          /\ IF r.found /\ r.message.type = MSG_STATE_RESPONSE
             THEN /\ current_state' = [ZeroFlightState EXCEPT
                                           !.altitude = r.message.payload]
                  /\ state_valid' = TRUE
             ELSE UNCHANGED <<current_state, state_valid>>
          /\ appc' = IF r.found THEN "drain" ELSE "control"
    /\ UNCHANGED <<now, nextPayload, last_state_request, pid_state, fc, notAp>>

\* (mutant) a control update in every tick
ApControlAlways ==
    /\ appc = "control"
    /\ nextPayload < MaxPublishAp
    /\ nextPayload' = nextPayload + 1
    /\ LET c == update_pid_controls(config, current_state, pid_state)
           r == bus_publish(bus, c.command)
       IN /\ pid_state' = c.pid_state
          /\ bus' = r.bus
          /\ last' = [Did("command") EXCEPT !.ret = r.ret, !.message = c.command]
    /\ appc' = "request"
    /\ UNCHANGED <<now, delivered, current_state, state_valid,
                   last_state_request, fc, notAp>>

\* the end of autopilot_process: update_pid_controls and its
\* send_control_command if the state is valid, a warning if not
ApControl ==
    /\ appc = "control"
    /\ IF state_valid
       THEN /\ nextPayload < MaxPublishAp
            /\ nextPayload' = nextPayload + 1
            /\ LET c == update_pid_controls(config, current_state, pid_state)
                   r == bus_publish(bus, c.command)
               IN /\ pid_state' = c.pid_state
                  /\ bus' = r.bus
                  /\ last' = [Did("command") EXCEPT !.ret = r.ret,
                                                    !.message = c.command]
       ELSE /\ last' = Did("skip")
            /\ UNCHANGED <<bus, nextPayload, pid_state>>
    /\ appc' = "request"
    /\ UNCHANGED <<now, delivered, current_state, state_valid,
                   last_state_request, fc, notAp>>

\* a second passes
ApTick ==
    /\ now < MESSAGE_TIMEOUT_S + 1 + MaxTicksAp
    /\ now' = now + 1
    /\ last' = NoOp
    /\ UNCHANGED <<bus, nextPayload, delivered, current_state, state_valid,
                   last_state_request, pid_state, appc, fc, notAp>>

NextAp ==
    \/ ApRequest
    \/ ApDrain
    \/ ApControl
    \/ ApTick
    \/ FcRead
    \/ FcRespond
    \/ FcReturn

SpecAp == InitAp /\ [][NextAp]_vars

\* the step leaves a message of type t in the slot bus_publish writes next
Enqueues(t) ==
    /\ bus'.queue.write_idx # bus.queue.write_idx
    /\ bus'.queue.messages[bus.queue.write_idx].type = t

\* C25: a tick of the autopilot publishes an AUTOPILOT_COMMAND only with
\* state_valid set, which a STATE_RESPONSE it has read has set; a tick with
\* state_valid false publishes nothing in its control step and leaves the
\* PID integrals and last errors as they were.
C25_CommandOnlyWhenValidStep ==
    /\ state_valid => \E m \in delivered : m.type = MSG_STATE_RESPONSE
    /\ (Enqueues(MSG_AUTOPILOT_COMMAND) \/ last'.op = "command") =>
           /\ state_valid
           /\ appc = "control"
    /\ pid_state' # pid_state => state_valid
    /\ (appc = "control" /\ appc' = "request" /\ ~state_valid) =>
           /\ bus' = bus
           /\ pid_state' = pid_state

C25_CommandOnlyWhenValid == [][C25_CommandOnlyWhenValidStep]_vars

\* a tick without a valid state was skipped, a later one has sent a command
C25_Witness ==
    /\ last.op = "command"
    /\ last.ret = SUCCESS
    /\ state_valid
    /\ pid_state # ZeroPidState

\* the STATE_REQUESTs among the count messages from read_idx on
PendingRequests(b) ==
    Cardinality({i \in 0..(b.queue.count - 1) :
        b.queue.messages[(b.queue.read_idx + i) % MAX_BUS_MESSAGES].type
            = MSG_STATE_REQUEST})

\* C26: every STATE_REQUEST the autopilot has published is read by the
\* flight controller, answered, the answer read by the autopilot.  Read on
\* finite runs: a STATE_REQUEST leaves the queue only in the step in which
\* the flight controller reads it.
C26_RequestReachesControllerStep ==
    PendingRequests(bus') < PendingRequests(bus) =>
        /\ last'.op = "handle"
        /\ last'.found
        /\ last'.message.type = MSG_STATE_REQUEST

C26_RequestReachesController == [][C26_RequestReachesControllerStep]_vars


(***************************************************************************)
(* SpecOrd: the bus of Spec, with what each reader has been given.         *)
(***************************************************************************)
notOrd == <<sem, segment, pc, runB, age, lifetime, fc, sup, autop, fin>>

SubscribeOrd(p) == DoSubscribe(p) /\ UNCHANGED <<ord, notOrd>>

PublishOrd(p) ==
    /\ nextPayload < MaxPublishOrd
    /\ DoPublish(p)
    /\ UNCHANGED <<ord, notOrd>>

\* the payloads of the slots the scan of bus_read_message passes before its
\* match: the slots from read_idx up to, not including, the matched index
SkippedAhead(b, subscriber, t) ==
    LET q == QueueAfterPrune(b.queue, t)
        b1 == [b EXCEPT !.queue = q]
        s == ScanLoop(b1, subscriber, q.read_idx, 0)
        ahead == (s.current + MAX_BUS_MESSAGES - q.read_idx) % MAX_BUS_MESSAGES
    IN IF q.count > 0 /\ s.found
       THEN {q.messages[(q.read_idx + i) % MAX_BUS_MESSAGES].payload :
                 i \in 0 .. (ahead - 1)}
       ELSE {}

ReadMessageOrd(p) ==
    /\ DoReadMessage(p)
    /\ got' = IF last'.found
              THEN [got EXCEPT ![p] = @ \cup {last'.message.payload}]
              ELSE got
    /\ skipped' = skipped \cup SkippedAhead(bus, p, now)
    /\ UNCHANGED notOrd

TickOrd == ClockTick /\ UNCHANGED <<ord, notOrd>>

NextOrd ==
    \/ \E p \in Procs : SubscribeOrd(p)
    \/ \E p \in Procs : PublishOrd(p)
    \/ \E p \in Procs : ReadMessageOrd(p)
    \/ TickOrd

SpecOrd == Init /\ [][NextOrd]_vars

\* C31: a reader is never given a publisher's message m2 before a message
\* m1 the same publisher had published before it: when a reader is given a
\* message for the first time, it has been given none that its sender
\* published later.
C31_PublisherOrderStep ==
    \A p \in Procs :
        (last'.op = "read" /\ last'.proc = p /\ last'.found
             /\ last'.message \in published
             /\ last'.message.payload \notin got[p]) =>
            \A m2 \in published :
                (m2.sender = last'.message.sender /\ m2.payload \in got[p]) =>
                    m2.payload < last'.message.payload

C31_PublisherOrder == [][C31_PublisherOrderStep]_vars

\* C32: a message that a matching read passed over on its way to a match
\* behind the head is returned by no later bus_read_message call of any
\* subscriber.
C32_SkippedNeverReturnedStep ==
    (last'.op = "read" /\ last'.found /\ last'.message \in published) =>
        last'.message.payload \notin skipped

C32_SkippedNeverReturned == [][C32_SkippedNeverReturnedStep]_vars

\* C33: a bus_read_message call that finds no message for its caller
\* completes in its one step with the result false and, entered with
\* count <= MAX_BUS_MESSAGES / 2, leaves read_idx, write_idx, count, every
\* queued message and the subscription table as they were.
C33_NoMatchStep ==
    (last'.op = "read" /\ ~last'.found
         /\ bus.queue.count <= MAX_BUS_MESSAGES \div 2) =>
        /\ last'.message = ZeroMessage
        /\ bus'.queue = bus.queue
        /\ bus'.subscriptions = bus.subscriptions
        /\ bus' = bus

C33_NoMatchLeavesBus == [][C33_NoMatchStep]_vars

\* a read found no match in a queue that holds a message, after a second
\* has passed
C33_Witness ==
    /\ last.op = "read"
    /\ ~last.found
    /\ bus.queue.count = 1
    /\ bus.queue.messages[bus.queue.read_idx] \in published
    /\ now > MESSAGE_TIMEOUT_S


(***************************************************************************)
(* SpecSpawn: flight_controller_spawn_component called by the root with    *)
(* any ComponentId of the enumeration, COMPONENT_SAT_COM included, on a    *)
(* controller that has spawned any number of children before.  fork may   *)
(* fail.                                                                   *)
(***************************************************************************)
ComponentIds == COMPONENT_FLIGHT_CONTROLLER .. COMPONENT_SAT_COM

notSpawn == <<bus, sem, segment, pc, now, nextPayload, published, delivered,
              redelivered, pruned, runB, age, lifetime, fc, fc_running,
              suppc, cursor, started, sig, worked, autop, ord, fin>>

SpawnComponent(component, pid) ==
    /\ spawns < MaxSpawnCalls
    /\ LET r == flight_controller_spawn_component(fc_pids, component, pid)
       IN /\ fc_pids' = r.pids
          /\ spawns' = IF r.forked THEN spawns + 1 ELSE spawns
          /\ child' = IF r.forked /\ component \in Spawned
                      THEN [child EXCEPT ![component] = "forked"]
                      ELSE child
          /\ child_pid' = IF r.forked /\ component \in Spawned
                          THEN [child_pid EXCEPT ![component] = pid]
                          ELSE child_pid
          /\ last' = [NoOp EXCEPT !.op = "spawn", !.arg = component,
                                  !.ret = r.ret, !.found = r.forked]
    /\ UNCHANGED notSpawn

NextSpawn ==
    \E component \in ComponentIds : \E pid \in {-1, spawns + 1} :
        SpawnComponent(component, pid)

SpecSpawn == InitSupervisor /\ [][NextSpawn]_vars

\* C34: flight_controller_spawn_component called with a ComponentId >=
\* MAX_COMPONENTS, COMPONENT_SAT_COM included, returns an error, creates no
\* process and leaves component_pids, the bus with its ref_count, the
\* flight state and the supervisor's running flags as they were.
C34_InvalidComponentStep ==
    (last'.op = "spawn" /\ last'.arg >= MAX_COMPONENTS) =>
        /\ last'.ret = ERROR_GENERAL
        /\ ~last'.found
        /\ spawns' = spawns
        /\ child' = child
        /\ child_pid' = child_pid
        /\ fc_pids' = fc_pids
        /\ bus' = bus
        /\ state' = state
        /\ fc_running' = fc_running
        /\ running' = running
        /\ suppc' = suppc

C34_InvalidComponentRejected == [][C34_InvalidComponentStep]_vars

\* COMPONENT_SAT_COM has been refused with fork at hand, on a controller
\* that holds the pids of children spawned before
C34_Witness ==
    /\ last.op = "spawn"
    /\ last.arg = COMPONENT_SAT_COM
    /\ last.ret = ERROR_GENERAL
    /\ spawns > 0
    /\ \E c \in Spawned : fc_pids[c] > 0

\* C35: after any number of crashes and respawns the bus_subscribe calls of
\* a component's start-up succeed.  For the autopilot: autopilot_init never
\* fails, so autopilot_main never returns.
C35_RespawnedSubscribes == life[COMPONENT_AUTOPILOT] # "returned"

\* C36: a child whose component entry point has returned decrements
\* ref_count once, in its bus_detach, and its exit decrements nothing more:
\* the step from exit() to the end of the handlers leaves ref_count alone.
C36_ChildExitStep ==
    \A c \in Children :
        (life[c] = "exit" /\ life'[c] = "exit2") =>
            bus'.ref_count = bus.ref_count

C36_ChildExitReleasesNothing == [][C36_ChildExitStep]_vars

\* C37: on a shutdown after a successful start the root enters bus_cleanup
\* once and not a second time on the bus it has already detached from.
C37_RootReleasesOnce == ~fin.failed => fin.cleanups <= 1

\* C38: when a spawn fails during flight_controller_start, the controller
\* is freed once, the bus reference is released once and the process ends
\* with exit code 1.
C38_StartFailure ==
    (fin.failed /\ life[Root] = "dead") =>
        /\ fin.frees = 1
        /\ fin.cleanups = 1
        /\ fin.status = "exit1"

\* C39: through start-up, terminations and respawns every entry of
\* component_pids is 0 or the pid of its component's one child, alive or
\* terminated and not yet waited for, and a fork for a component never
\* happens while a child of that component is alive: at most one live child
\* per ComponentId.
C39_PidsOfChildren ==
    \A c \in 0 .. (MAX_COMPONENTS - 1) :
        \/ fc_pids[c] = 0
        \/ /\ c \in Spawned
           /\ fc_pids[c] = child_pid[c]
           /\ child[c] \in Living \cup {"zombie"}

C39_ForkStep ==
    \A c \in Spawned :
        (child_pid'[c] # child_pid[c] /\ child'[c] = "forked") =>
            /\ child[c] \notin Living
            /\ \A d \in Spawned \ {c} : child_pid'[d] # child_pid'[c]

C39_OneChildPerComponent == []C39_PidsOfChildren /\ [][C39_ForkStep]_vars

\* a respawned child is alive and recorded while another component's
\* terminated child is not yet waited for
C39_Witness ==
    \E c, d \in Spawned :
        /\ child_pid[c] > Len(components)
        /\ child[c] \in Living
        /\ fc_pids[c] = child_pid[c]
        /\ child[d] = "zombie"
        /\ fc_pids[d] = child_pid[d]


(***************************************************************************)
(* SpecSem: the executions of SpecSup in which no process is killed inside *)
(* a bus operation: a child ends by a fatal signal, its own or the         *)
(* supervisor's SIGKILL, only outside the sem_wait .. sem_post of every    *)
(* bus operation.  Signals that are handled are not kills.                 *)
(***************************************************************************)
ChildCrashOutside(c) ==
    /\ child[c] \notin InCritical
    /\ ChildCrash(c)

SupCleanupKillOutside ==
    /\ suppc = "sleep"
    /\ child[cursor] \notin InCritical
    /\ SupCleanupKill

NextSem ==
    \/ SupStartSpawn
    \/ SupStartDone
    \/ SupSignal
    \/ SupInterrupted
    \/ SupEnterRead
    \/ SupRead
    \/ \E c \in Spawned : SupReap(c)
    \/ SupReturn
    \/ SupLeaveLoop
    \/ SupCleanupSkip
    \/ SupCleanupTerm
    \/ SupCleanupKillOutside
    \/ SupBusCleanupWait
    \/ SupBusCleanup
    \/ SupExit
    \/ \E c \in Spawned : ChildSemWait(c)
    \/ \E c \in Spawned : ChildSemPost(c)
    \/ \E c \in Spawned : ChildCrashOutside(c)

SpecSem == InitSupervisor /\ [][NextSem]_vars

\* C40: with no process killed inside a bus operation, the semaphore never
\* exceeds 1 and is 1 whenever no process is inside a bus operation.
C40_SemaphoreBinary ==
    /\ sem <= 1
    /\ NobodyWillPost => sem = 1

====
